---- MODULE Spec2Model ----
(***************************************************************************)
(* Model of the slab allocator: FreeBlockList / Slab (src/src/slab.rs),    *)
(* Heap and LockedHeap (src/src/lib.rs).                                   *)
(***************************************************************************)
EXTENDS Integers, Sequences, FiniteSets, TLC

(***************************************************************************)
(* Program constants (lib.rs:27-29)                                        *)
(***************************************************************************)
NUM_OF_SLABS == 8
MIN_SLAB_SIZE == 4096
MIN_HEAP_SIZE == NUM_OF_SLABS * MIN_SLAB_SIZE

(***************************************************************************)
(* Bounds of the model                                                     *)
(***************************************************************************)
\* width of usize in bits; addresses and sizes live in 0 .. 2^UsizeBits - 1
UsizeBits == 16
\* at most this many allocate and deallocate calls are made on one heap
MaxCalls == 4

RECURSIVE Pow2(_)
Pow2(n) == IF n = 0 THEN 1 ELSE 2 * Pow2(n - 1)

UsizeMod == Pow2(UsizeBits)

\* Option::None of Option<Unique<FreeBlock>> is the null address
None == 0

\* u8::MAX, the range of the target type of the conversion at lib.rs:75
U8_MAX == 255

(***************************************************************************)
(* enum HeapAllocator (lib.rs:32-41)                                       *)
(***************************************************************************)
HeapAllocator ==
  {"Slab64Bytes", "Slab128Bytes", "Slab256Bytes", "Slab512Bytes",
   "Slab1024Bytes", "Slab2048Bytes", "Slab4096Bytes", "LinkedListAllocator"}

SlabAllocators == HeapAllocator \ {"LinkedListAllocator"}

\* layout_to_allocator with the alignment left out of the tests
layout_to_allocator_SizeOnly(layout) ==
  IF layout.size > 4096 THEN "LinkedListAllocator"
  ELSE IF layout.size <= 64 THEN "Slab64Bytes"
  ELSE IF layout.size <= 128 THEN "Slab128Bytes"
  ELSE IF layout.size <= 256 THEN "Slab256Bytes"
  ELSE IF layout.size <= 512 THEN "Slab512Bytes"
  ELSE IF layout.size <= 1024 THEN "Slab1024Bytes"
  ELSE IF layout.size <= 2048 THEN "Slab2048Bytes"
  ELSE "Slab4096Bytes"

\* layout_to_allocator with the alignment tests strict
layout_to_allocator_AlignStrict(layout) ==
  IF layout.size > 4096 THEN "LinkedListAllocator"
  ELSE IF layout.size <= 64 /\ layout.align < 64 THEN "Slab64Bytes"
  ELSE IF layout.size <= 128 /\ layout.align < 128 THEN "Slab128Bytes"
  ELSE IF layout.size <= 256 /\ layout.align < 256 THEN "Slab256Bytes"
  ELSE IF layout.size <= 512 /\ layout.align < 512 THEN "Slab512Bytes"
  ELSE IF layout.size <= 1024 /\ layout.align < 1024 THEN "Slab1024Bytes"
  ELSE IF layout.size <= 2048 /\ layout.align < 2048 THEN "Slab2048Bytes"
  ELSE "Slab4096Bytes"

(***************************************************************************)
(* Heap::layout_to_allocator (lib.rs:171-189)                              *)
(***************************************************************************)
layout_to_allocator(layout) ==
  IF layout.size > 4096 THEN "LinkedListAllocator"
  ELSE IF layout.size <= 64 /\ layout.align <= 64 THEN "Slab64Bytes"
  ELSE IF layout.size <= 128 /\ layout.align <= 128 THEN "Slab128Bytes"
  ELSE IF layout.size <= 256 /\ layout.align <= 256 THEN "Slab256Bytes"
  ELSE IF layout.size <= 512 /\ layout.align <= 512 THEN "Slab512Bytes"
  ELSE IF layout.size <= 1024 /\ layout.align <= 1024 THEN "Slab1024Bytes"
  ELSE IF layout.size <= 2048 /\ layout.align <= 2048 THEN "Slab2048Bytes"
  ELSE "Slab4096Bytes"

(***************************************************************************)
(* Heap::usable_size (lib.rs:157-168)                                      *)
(***************************************************************************)
usable_size_BigAsSlab(layout) ==
  LET which == layout_to_allocator(layout) IN
  CASE which = "Slab64Bytes" -> <<layout.size, 64>>
    [] which = "Slab128Bytes" -> <<layout.size, 128>>
    [] which = "Slab256Bytes" -> <<layout.size, 256>>
    [] which = "Slab512Bytes" -> <<layout.size, 512>>
    [] which = "Slab1024Bytes" -> <<layout.size, 1024>>
    [] which = "Slab2048Bytes" -> <<layout.size, 2048>>
    [] which = "Slab4096Bytes" -> <<layout.size, 4096>>
    [] which = "LinkedListAllocator" -> <<layout.size, 4096>>

usable_size(layout) ==
  LET which == layout_to_allocator(layout) IN
  CASE which = "Slab64Bytes" -> <<layout.size, 64>>
    [] which = "Slab128Bytes" -> <<layout.size, 128>>
    [] which = "Slab256Bytes" -> <<layout.size, 256>>
    [] which = "Slab512Bytes" -> <<layout.size, 512>>
    [] which = "Slab1024Bytes" -> <<layout.size, 1024>>
    [] which = "Slab2048Bytes" -> <<layout.size, 2048>>
    [] which = "Slab4096Bytes" -> <<layout.size, 4096>>
    [] which = "LinkedListAllocator" -> <<layout.size, layout.size>>

(***************************************************************************)
(* FreeBlockList (slab.rs:93-199).  A list is [len, head, tail]; the nodes *)
(* live in the managed memory m, a function from block addresses to the    *)
(* FreeBlock { next, prev } stored at that address (slab.rs:374-377).      *)
(* Every operation returns the list and the memory it leaves behind.       *)
(***************************************************************************)
new_empty == [len |-> 0, head |-> None, tail |-> None]

SetNext(m, a, v) == [m EXCEPT ![a] = [@ EXCEPT !.next = v]]
SetPrev(m, a, v) == [m EXCEPT ![a] = [@ EXCEPT !.prev = v]]
Store(m, a, node) == (a :> node) @@ m

\* slab.rs:185-199
push_back(list, m, free_block) ==
  LET m1 == Store(m, free_block, [next |-> None, prev |-> list.tail])
      m2 == IF list.tail = None THEN m1 ELSE SetNext(m1, list.tail, free_block)
  IN [list |-> [len |-> list.len + 1,
                head |-> IF list.tail = None THEN free_block ELSE list.head,
                tail |-> free_block],
      mem |-> m2]

\* push_front that links the block in at the tail
push_front_AtTail(list, m, free_block) == push_back(list, m, free_block)

\* slab.rs:168-182
push_front(list, m, free_block) ==
  LET m1 == Store(m, free_block, [next |-> list.head, prev |-> None])
      m2 == IF list.head = None THEN m1 ELSE SetPrev(m1, list.head, free_block)
  IN [list |-> [len |-> list.len + 1,
                head |-> free_block,
                tail |-> IF list.head = None THEN free_block ELSE list.tail],
      mem |-> m2]

\* pop_front that leaves len as it was
pop_front_KeepLen(list, m) ==
  IF list.head = None
  THEN [node |-> None, list |-> list, mem |-> m]
  ELSE LET node == list.head
           newHead == m[node].next
       IN [node |-> node,
           list |-> [len |-> list.len,
                     head |-> newHead,
                     tail |-> IF newHead = None THEN None ELSE list.tail],
           mem |-> IF newHead = None THEN m ELSE SetPrev(m, newHead, None)]

\* slab.rs:138-150; node = None when the list is empty
pop_front(list, m) ==
  IF list.head = None
  THEN [node |-> None, list |-> list, mem |-> m]
  ELSE LET node == list.head
           newHead == m[node].next
       IN [node |-> node,
           list |-> [len |-> list.len - 1,
                     head |-> newHead,
                     tail |-> IF newHead = None THEN None ELSE list.tail],
           mem |-> IF newHead = None THEN m ELSE SetPrev(m, newHead, None)]

\* the iterations lo <= i < hi of the loop of FreeBlockList::new, applied in
\* order to the list and memory st (slab.rs:116-120); the test on first makes
\* the evaluator finish the iterations below mid before it starts the others
RECURSIVE NewLoop(_, _, _, _, _)
NewLoop(st, start_addr, block_size, lo, hi) ==
  IF lo >= hi THEN st
  ELSE IF hi = lo + 1
  THEN push_back(st.list, st.mem, (start_addr + lo * block_size) % UsizeMod)
  ELSE LET mid == (lo + hi) \div 2
           first == NewLoop(st, start_addr, block_size, lo, mid)
       IN IF first.list.len >= 0
          THEN NewLoop(first, start_addr, block_size, mid, hi)
          ELSE first

\* FreeBlockList::new that threads the blocks from the highest address down
FreeBlockList_new_Descending(m, start_addr, block_size, num_of_blocks) ==
  NewLoop([list |-> new_empty, mem |-> m],
          start_addr + (num_of_blocks - 1) * block_size, 0 - block_size,
          0, num_of_blocks)

\* slab.rs:114-122
FreeBlockList_new(m, start_addr, block_size, num_of_blocks) ==
  NewLoop([list |-> new_empty, mem |-> m], start_addr, block_size, 0, num_of_blocks)

\* slab.rs:153-165; node = None when the list is empty
pop_back(list, m) ==
  IF list.tail = None
  THEN [node |-> None, list |-> list, mem |-> m]
  ELSE LET node == list.tail
           newTail == m[node].prev
       IN [node |-> node,
           list |-> [len |-> list.len - 1,
                     head |-> IF newTail = None THEN None ELSE list.head,
                     tail |-> newTail],
           mem |-> IF newTail = None THEN m ELSE SetNext(m, newTail, None)]

\* what is left in memory when a list is dropped (slab.rs:368-372)
RECURSIVE DropList(_, _)
DropList(list, m) ==
  IF list.head = None THEN m
  ELSE LET r == pop_front(list, m) IN DropList(r.list, r.mem)

\* the head of an iterator after k calls of next and its tail after k calls
\* of next_back (slab.rs:379-466); none of the calls made finds len = 0
RECURSIVE NthNext(_, _, _)
NthNext(m, node, k) ==
  IF k = 0 \/ node = None THEN node ELSE NthNext(m, m[node].next, k - 1)

RECURSIVE NthPrev(_, _, _)
NthPrev(m, node, k) ==
  IF k = 0 \/ node = None THEN node ELSE NthPrev(m, m[node].prev, k - 1)

\* slab.rs:216-232.  The result is [self, other, mem].
append(self, other, m) ==
  IF self.tail = None
  THEN [self |-> other, other |-> self, mem |-> m]
  ELSE IF other.head # None
  THEN [self |-> [len |-> self.len + other.len, head |-> self.head,
                  tail |-> other.tail],
        other |-> new_empty,
        mem |-> SetPrev(SetNext(m, self.tail, other.head), other.head, self.tail)]
  ELSE [self |-> self, other |-> other, mem |-> m]

\* slab.rs:234-284.  The result is [ok, self, second, mem]; ok = FALSE is the
\* panic of the assertion or of split_node.unwrap().
split_off(list, m, at) ==
  IF at > list.len
  THEN [ok |-> FALSE, self |-> list, second |-> new_empty, mem |-> m]
  ELSE IF at = 0
  THEN [ok |-> TRUE, self |-> new_empty, second |-> list, mem |-> m]
  ELSE IF at = list.len
  THEN [ok |-> TRUE, self |-> list, second |-> new_empty, mem |-> m]
  ELSE
  LET split_node == IF at - 1 <= list.len - 1 - (at - 1)
                    THEN NthNext(m, list.head, at - 1)
                    ELSE NthPrev(m, list.tail, list.len - 1 - (at - 1))
  IN IF split_node = None
     THEN [ok |-> FALSE, self |-> list, second |-> new_empty, mem |-> m]
     ELSE LET second_part_head == m[split_node].next
              m1 == SetNext(m, split_node, None)
          IN [ok |-> TRUE,
              self |-> [len |-> at, head |-> list.head, tail |-> split_node],
              second |-> [len |-> list.len - at, head |-> second_part_head,
                          tail |-> list.tail],
              mem |-> IF second_part_head = None THEN m1
                      ELSE SetPrev(m1, second_part_head, None)]

\* the loop of find_adjacent from the pair at current_block_index on
\* (slab.rs:312-323); current_block is the first block of that pair.  The
\* result is [found, index]; found = FALSE is Option::None.
RECURSIVE AdjacentLoop(_, _, _, _, _, _, _)
AdjacentLoop(list, m, block_size, num, current_block, current_block_index, st) ==
  IF current_block_index + 1 >= list.len \/ current_block = None
     \/ m[current_block].next = None
  THEN [found |-> FALSE, index |-> 0]
  ELSE LET next_block == m[current_block].next
           isAdjacent == (current_block + block_size) % UsizeMod = next_block
           adjacent == IF isAdjacent THEN st.adjacent + 1 ELSE 1
           first_block_index == IF isAdjacent THEN st.first_block_index
                                ELSE current_block_index + 1
       IN IF adjacent = num THEN [found |-> TRUE, index |-> first_block_index]
          ELSE AdjacentLoop(list, m, block_size, num, next_block,
                            current_block_index + 1,
                            [adjacent |-> adjacent,
                             first_block_index |-> first_block_index])

\* slab.rs:304-326
find_adjacent(list, m, block_size, num) ==
  IF list.len >= num
  THEN IF num = 1 THEN [found |-> TRUE, index |-> 0]
       ELSE AdjacentLoop(list, m, block_size, num, list.head, 0,
                         [adjacent |-> 1, first_block_index |-> 0])
  ELSE [found |-> FALSE, index |-> 0]

\* slab.rs:328-333.  The result is [ok, self, removed, mem]; ok = FALSE is a
\* panic of split_off.
remove(list, m, index, num) ==
  LET s1 == split_off(list, m, index)
      s2 == split_off(s1.second, s1.mem, num)
      a == append(s1.self, s2.second, s2.mem)
  IN IF ~s1.ok \/ ~s2.ok
     THEN [ok |-> FALSE, self |-> list, removed |-> new_empty, mem |-> m]
     ELSE [ok |-> TRUE, self |-> a.self, removed |-> s2.self, mem |-> a.mem]

\* the loop `while let Some(block) = free_blocks.pop_back()` of insert_sorted
\* (slab.rs:344-346), applied to st = [self, free, mem]
RECURSIVE PushFrontAll(_)
PushFrontAll(st) ==
  IF st.free.tail = None THEN st
  ELSE LET b == pop_back(st.free, st.mem)
           f == push_front(st.self, b.mem, b.node)
       IN PushFrontAll([self |-> f.list, free |-> b.list, mem |-> f.mem])

\* the search of insert_sorted for the pair of blocks that the new blocks go
\* between, from the pair at current_block_index on (slab.rs:349-358)
RECURSIVE SplitIndex(_, _, _, _, _)
SplitIndex(list, m, free, current_block, current_block_index) ==
  IF current_block_index + 1 >= list.len \/ current_block = None
     \/ m[current_block].next = None
  THEN [found |-> FALSE, index |-> 0]
  ELSE IF free.head > current_block /\ free.tail < m[current_block].next
  THEN [found |-> TRUE, index |-> current_block_index + 1]
  ELSE SplitIndex(list, m, free, m[current_block].next, current_block_index + 1)

\* slab.rs:335-365.  The result is [ok, self, mem]; ok = FALSE is the panic of
\* the unwrap of self.back() or self.front() on an empty list, or one of
\* split_off.  The blocks of a list that is dropped are unlinked.
insert_sorted(list, m, free_blocks) ==
  IF free_blocks.len > 0
  THEN IF list.tail = None
       THEN [ok |-> FALSE, self |-> list, mem |-> DropList(free_blocks, m)]
       ELSE IF free_blocks.head > list.tail
       THEN LET a == append(list, free_blocks, m)
            IN [ok |-> TRUE, self |-> a.self, mem |-> a.mem]
       ELSE IF list.head = None
       THEN [ok |-> FALSE, self |-> list, mem |-> DropList(free_blocks, m)]
       ELSE IF free_blocks.tail < list.head
       THEN LET r == PushFrontAll([self |-> list, free |-> free_blocks, mem |-> m])
            IN [ok |-> TRUE, self |-> r.self, mem |-> r.mem]
       ELSE LET split_index == SplitIndex(list, m, free_blocks, list.head, 0)
            IN IF split_index.found
               THEN LET s == split_off(list, m, split_index.index)
                        a1 == append(s.self, free_blocks, s.mem)
                        a2 == append(a1.self, s.second, a1.mem)
                    IN IF s.ok THEN [ok |-> TRUE, self |-> a2.self, mem |-> a2.mem]
                       ELSE [ok |-> FALSE, self |-> list,
                             mem |-> DropList(free_blocks, m)]
               ELSE [ok |-> TRUE, self |-> list, mem |-> DropList(free_blocks, m)]
  ELSE [ok |-> TRUE, self |-> list, mem |-> m]

(***************************************************************************)
(* Slab (slab.rs:6-56, 77-80)                                              *)
(***************************************************************************)
\* slab.rs:14-22
Slab_new(m, start_addr, slab_size, block_size) ==
  LET fl == FreeBlockList_new(m, start_addr, block_size, slab_size \div block_size)
  IN [slab |-> [start_addr |-> start_addr, slab_size |-> slab_size,
                block_size |-> block_size, free_block_list |-> fl.list],
      mem |-> fl.mem]

\* slab.rs:51-56; ptr = None stands for Err(AllocErr)
Slab_allocate_Peek(slab, m) ==
  LET r == pop_front(slab.free_block_list, m)
  IN [ok |-> r.node # None, ptr |-> r.node, slab |-> slab, mem |-> m]

Slab_allocate(slab, m) ==
  LET r == pop_front(slab.free_block_list, m)
  IN [ok |-> r.node # None, ptr |-> r.node,
      slab |-> [slab EXCEPT !.free_block_list = r.list], mem |-> r.mem]

\* Slab::deallocate that drops the block instead of listing it
Slab_deallocate_Drop(slab, m, ptr) == [slab |-> slab, mem |-> m]

\* slab.rs:77-80
Slab_deallocate(slab, m, ptr) ==
  LET r == push_front(slab.free_block_list, m, ptr)
  IN [slab |-> [slab EXCEPT !.free_block_list = r.list], mem |-> r.mem]

\* Slab::grow(start_addr, slab_size), called by Heap::grow (lib.rs:100-106):
\* appends slab_size / block_size blocks of the new region to the free list
\* and panics when slab_size is not a multiple of the block size.  The result
\* is [ok, slab, mem]; ok = FALSE is the panic.
Slab_grow(slab, m, start_addr, slab_size) ==
  IF slab_size % slab.block_size # 0
  THEN [ok |-> FALSE, slab |-> slab, mem |-> m]
  ELSE LET r == NewLoop([list |-> slab.free_block_list, mem |-> m],
                        start_addr, slab.block_size,
                        0, slab_size \div slab.block_size)
       IN [ok |-> TRUE, slab |-> [slab EXCEPT !.free_block_list = r.list],
           mem |-> r.mem]

\* slab.rs:58-75.  The result is [ok, panic, ptr, slab, mem]; ok = FALSE is
\* Err(AllocErr); the list of the removed blocks is dropped on return.
Slab_allocate_multiple(slab, m, num) ==
  IF num = 1
  THEN LET r == Slab_allocate(slab, m)
       IN [ok |-> r.ok, panic |-> FALSE, ptr |-> r.ptr, slab |-> r.slab, mem |-> r.mem]
  ELSE LET index == find_adjacent(slab.free_block_list, m, slab.block_size, num)
           removed == remove(slab.free_block_list, m, index.index, num)
       IN IF ~index.found
          THEN [ok |-> FALSE, panic |-> FALSE, ptr |-> None, slab |-> slab, mem |-> m]
          ELSE IF ~removed.ok \/ removed.removed.head = None
          THEN [ok |-> FALSE, panic |-> TRUE, ptr |-> None, slab |-> slab, mem |-> m]
          ELSE [ok |-> TRUE, panic |-> FALSE, ptr |-> removed.removed.head,
                slab |-> [slab EXCEPT !.free_block_list = removed.self],
                mem |-> DropList(removed.removed, removed.mem)]

\* slab.rs:82-90.  The result is [ok, slab, mem]; ok = FALSE is a panic of
\* insert_sorted.
Slab_deallocate_multiple(slab, m, ptr, num) ==
  LET new_block_list == NewLoop([list |-> new_empty, mem |-> m], ptr,
                                slab.block_size, 0, num)
      r == insert_sorted(slab.free_block_list, new_block_list.mem,
                         new_block_list.list)
  IN [ok |-> r.ok, slab |-> [slab EXCEPT !.free_block_list = r.self], mem |-> r.mem]

\* slab.rs:32-42
num_of_blocks(slab) == slab.slab_size \div slab.block_size
free_blocks(slab) == slab.free_block_list.len

\* slab.rs:40-42: the usize subtraction num_of_blocks() - free_blocks();
\* ok = FALSE when it underflows (a panic where overflow is checked, the
\* wrapped value elsewhere)
used_blocks(slab) ==
  LET diff == num_of_blocks(slab) - free_blocks(slab)
  IN [ok |-> diff >= 0, value |-> diff % UsizeMod]

\* slab.rs:44-49
contains_addr(slab, addr) ==
  addr >= slab.start_addr /\ addr < slab.start_addr + slab.slab_size

(***************************************************************************)
(* The large-block allocator (linked_list_allocator::Heap, an external     *)
(* crate): a first-fit allocator over an address-ordered list of free      *)
(* extents [addr, size].                                                   *)
(***************************************************************************)
\* the platform word, in bytes
WORD == UsizeBits \div 8

align_up(addr, align) == ((addr + align - 1) \div align) * align

LLA_new(bottom, size) ==
  [bottom |-> bottom, size |-> size, holes |-> <<[addr |-> bottom, size |-> size]>>]

\* extents left of and right of the carved range [a, a + size), empty ones dropped
SplitHole(hole, a, size) ==
  (IF a > hole.addr THEN <<[addr |-> hole.addr, size |-> a - hole.addr]>> ELSE <<>>)
  \o (IF a + size < hole.addr + hole.size
      THEN <<[addr |-> a + size, size |-> hole.addr + hole.size - (a + size)]>>
      ELSE <<>>)

RECURSIVE FirstFit(_, _, _, _)
FirstFit(holes, i, size, align) ==
  IF i > Len(holes) THEN [ok |-> FALSE, ptr |-> None, holes |-> holes]
  ELSE LET hole == holes[i]
           a == align_up(hole.addr, align)
       IN IF a + size <= hole.addr + hole.size
          THEN [ok |-> TRUE, ptr |-> a,
                holes |-> SubSeq(holes, 1, i - 1) \o SplitHole(hole, a, size)
                          \o SubSeq(holes, i + 1, Len(holes))]
          ELSE FirstFit(holes, i + 1, size, align)

\* allocate_first_fit over the hole list `holes` read from the region
allocate_first_fit(lla, holes, layout) ==
  LET size == align_up(IF layout.size < WORD THEN WORD ELSE layout.size, WORD)
      align == IF layout.align < WORD THEN WORD ELSE layout.align
      r == FirstFit(holes, 1, size, align)
  IN [ok |-> r.ok, ptr |-> r.ptr, lla |-> [lla EXCEPT !.holes = r.holes]]

RECURSIVE InsertHole(_, _)
InsertHole(holes, h) ==
  IF holes = <<>> THEN <<h>>
  ELSE IF h.addr + h.size = Head(holes).addr
       THEN <<[addr |-> h.addr, size |-> h.size + Head(holes).size]>> \o Tail(holes)
  ELSE IF h.addr < Head(holes).addr THEN <<h>> \o holes
  ELSE IF Head(holes).addr + Head(holes).size = h.addr
       THEN InsertHole(Tail(holes),
                       [addr |-> Head(holes).addr, size |-> Head(holes).size + h.size])
  ELSE <<Head(holes)>> \o InsertHole(Tail(holes), h)

LLA_deallocate(lla, holes, ptr, layout) ==
  LET size == align_up(IF layout.size < WORD THEN WORD ELSE layout.size, WORD)
  IN [lla EXCEPT !.holes = InsertHole(holes, [addr |-> ptr, size |-> size])]

\* extend(by): the bytes after the end of the region join the free extents
LLA_extend(lla, holes, by) ==
  [lla EXCEPT !.size = @ + by,
              !.holes = InsertHole(holes, [addr |-> lla.bottom + lla.size,
                                           size |-> by])]

(***************************************************************************)
(* Heap (lib.rs:45-153)                                                    *)
(***************************************************************************)
NoHeap == [kind |-> "None"]

\* the three assertions of Heap::new (lib.rs:62-73)
NewAsserts_NoAlignment(heap_start_addr, heap_size) ==
  /\ heap_size >= MIN_HEAP_SIZE
  /\ heap_size % MIN_HEAP_SIZE = 0

NewAsserts(heap_start_addr, heap_size) ==
  /\ heap_start_addr % 4096 = 0
  /\ heap_size >= MIN_HEAP_SIZE
  /\ heap_size % MIN_HEAP_SIZE = 0

\* `(heap_start_addr + 7 * slab_size).try_into().unwrap()` into a u8
\* (lib.rs:75): the sum panics on overflow when the build checks overflow and
\* wraps otherwise; the checked conversion panics when the value exceeds
\* u8::MAX.  The result is [ok, value].
heap_bottom(heap_start_addr, slab_size, overflow_checks) ==
  LET sum == heap_start_addr + 7 * slab_size
      wrapped == sum % UsizeMod
  IN IF sum >= UsizeMod /\ overflow_checks THEN [ok |-> FALSE, value |-> 0]
     ELSE IF wrapped > U8_MAX THEN [ok |-> FALSE, value |-> 0]
     ELSE [ok |-> TRUE, value |-> wrapped]

\* slab start addresses that are off by one 64-byte block
SlabStart_Shifted(heap_start_addr, slab_size, i) ==
  (heap_start_addr + i * slab_size + 64) % UsizeMod

\* start address handed to Slab::new for the slab at position i (lib.rs:78-84)
SlabStart(heap_start_addr, slab_size, i) == (heap_start_addr + i * slab_size) % UsizeMod

\* Heap::new (lib.rs:61-90).  heap_bottom_ptr is the address of the local
\* variable heap_bottom in the frame of Heap::new (lib.rs:76), and that
\* address, not the value of heap_bottom, is what the large-block allocator
\* is built over (lib.rs:85-88).  The result is [ok, heap, mem]; ok = FALSE
\* is a panic.
Heap_new(m, heap_start_addr, heap_size, overflow_checks, heap_bottom_ptr) ==
  IF ~NewAsserts(heap_start_addr, heap_size)
  THEN [ok |-> FALSE, heap |-> NoHeap, mem |-> m]
  ELSE
  LET slab_size == heap_size \div NUM_OF_SLABS
      hb == heap_bottom(heap_start_addr, slab_size, overflow_checks)
      s0 == Slab_new(m, SlabStart(heap_start_addr, slab_size, 0), slab_size, 64)
      s1 == Slab_new(s0.mem, SlabStart(heap_start_addr, slab_size, 1), slab_size, 128)
      s2 == Slab_new(s1.mem, SlabStart(heap_start_addr, slab_size, 2), slab_size, 256)
      s3 == Slab_new(s2.mem, SlabStart(heap_start_addr, slab_size, 3), slab_size, 512)
      s4 == Slab_new(s3.mem, SlabStart(heap_start_addr, slab_size, 4), slab_size, 1024)
      s5 == Slab_new(s4.mem, SlabStart(heap_start_addr, slab_size, 5), slab_size, 2048)
      s6 == Slab_new(s5.mem, SlabStart(heap_start_addr, slab_size, 6), slab_size, 4096)
  IN IF ~hb.ok THEN [ok |-> FALSE, heap |-> NoHeap, mem |-> m]
     ELSE [ok |-> TRUE,
           heap |-> [kind |-> "Some",
                     slab_64_bytes |-> s0.slab,
                     slab_128_bytes |-> s1.slab,
                     slab_256_bytes |-> s2.slab,
                     slab_512_bytes |-> s3.slab,
                     slab_1024_bytes |-> s4.slab,
                     slab_2048_bytes |-> s5.slab,
                     slab_4096_bytes |-> s6.slab,
                     linked_list_allocator |-> LLA_new(heap_bottom_ptr, slab_size)],
           mem |-> s6.mem]

\* the field each arm of the match in Heap::allocate works on (lib.rs:116-129)
AllocateArm(which) ==
  CASE which = "Slab64Bytes" -> "slab_64_bytes"
    [] which = "Slab128Bytes" -> "slab_128_bytes"
    [] which = "Slab256Bytes" -> "slab_256_bytes"
    [] which = "Slab512Bytes" -> "slab_512_bytes"
    [] which = "Slab1024Bytes" -> "slab_1024_bytes"
    [] which = "Slab2048Bytes" -> "slab_2048_bytes"
    [] which = "Slab4096Bytes" -> "slab_4096_bytes"
    [] which = "LinkedListAllocator" -> "linked_list_allocator"

\* arms of Heap::deallocate of which that of Slab2048Bytes gives the block to
\* the slab of 4096-byte blocks
DeallocateArm_Shared(which) ==
  CASE which = "Slab64Bytes" -> "slab_64_bytes"
    [] which = "Slab128Bytes" -> "slab_128_bytes"
    [] which = "Slab256Bytes" -> "slab_256_bytes"
    [] which = "Slab512Bytes" -> "slab_512_bytes"
    [] which = "Slab1024Bytes" -> "slab_1024_bytes"
    [] which = "Slab2048Bytes" -> "slab_4096_bytes"
    [] which = "Slab4096Bytes" -> "slab_4096_bytes"
    [] which = "LinkedListAllocator" -> "linked_list_allocator"

\* the field each arm of the match in Heap::deallocate works on (lib.rs:141-152)
DeallocateArm(which) ==
  CASE which = "Slab64Bytes" -> "slab_64_bytes"
    [] which = "Slab128Bytes" -> "slab_128_bytes"
    [] which = "Slab256Bytes" -> "slab_256_bytes"
    [] which = "Slab512Bytes" -> "slab_512_bytes"
    [] which = "Slab1024Bytes" -> "slab_1024_bytes"
    [] which = "Slab2048Bytes" -> "slab_2048_bytes"
    [] which = "Slab4096Bytes" -> "slab_4096_bytes"
    [] which = "LinkedListAllocator" -> "linked_list_allocator"

\* Heap::allocate that falls back to the slab of 4096-byte blocks when the
\* chosen slab is empty
Heap_allocate_Fallback(h, m, layout, holes) ==
  LET which == layout_to_allocator(layout)
      chosen == AllocateArm(which)
      field == IF chosen # "linked_list_allocator"
                  /\ h[chosen].free_block_list.head = None
               THEN "slab_4096_bytes" ELSE chosen
  IN
  IF field = "linked_list_allocator"
  THEN LET r == allocate_first_fit(h.linked_list_allocator, holes, layout)
       IN [ok |-> r.ok, ptr |-> r.ptr,
           heap |-> [h EXCEPT !.linked_list_allocator = r.lla], mem |-> m]
  ELSE LET r == Slab_allocate(h[field], m)
       IN [ok |-> r.ok, ptr |-> r.ptr,
           heap |-> [h EXCEPT ![field] = r.slab], mem |-> r.mem]

\* Heap::allocate (lib.rs:115-131).  `holes` is the hole list the large-block
\* allocator reads from its region.  The result is [ok, ptr, heap, mem];
\* ok = FALSE is Err(AllocError).
Heap_allocate(h, m, layout, holes) ==
  LET which == layout_to_allocator(layout)
      field == AllocateArm(which)
  IN
  IF field = "linked_list_allocator"
  THEN LET r == allocate_first_fit(h.linked_list_allocator, holes, layout)
       IN [ok |-> r.ok, ptr |-> r.ptr,
           heap |-> [h EXCEPT !.linked_list_allocator = r.lla], mem |-> m]
  ELSE LET r == Slab_allocate(h[field], m)
       IN [ok |-> r.ok, ptr |-> r.ptr,
           heap |-> [h EXCEPT ![field] = r.slab], mem |-> r.mem]

\* Heap::deallocate (lib.rs:140-153).  The result is [heap, mem].
Heap_deallocate(h, m, ptr, layout, holes) ==
  LET which == layout_to_allocator(layout)
      field == DeallocateArm(which)
  IN
  IF field = "linked_list_allocator"
  THEN [heap |-> [h EXCEPT !.linked_list_allocator =
                     LLA_deallocate(h.linked_list_allocator, holes, ptr, layout)],
        mem |-> m]
  ELSE LET r == Slab_deallocate(h[field], m, ptr)
       IN [heap |-> [h EXCEPT ![field] = r.slab], mem |-> r.mem]

\* arms of Heap::grow with those of the 1024- and the 2048-byte slab swapped
GrowArm_Swapped(which) ==
  CASE which = "Slab64Bytes" -> "slab_64_bytes"
    [] which = "Slab128Bytes" -> "slab_128_bytes"
    [] which = "Slab256Bytes" -> "slab_256_bytes"
    [] which = "Slab512Bytes" -> "slab_512_bytes"
    [] which = "Slab1024Bytes" -> "slab_2048_bytes"
    [] which = "Slab2048Bytes" -> "slab_1024_bytes"
    [] which = "Slab4096Bytes" -> "slab_4096_bytes"
    [] which = "LinkedListAllocator" -> "linked_list_allocator"

\* the field each arm of the match in Heap::grow works on (lib.rs:99-108)
GrowArm(which) ==
  CASE which = "Slab64Bytes" -> "slab_64_bytes"
    [] which = "Slab128Bytes" -> "slab_128_bytes"
    [] which = "Slab256Bytes" -> "slab_256_bytes"
    [] which = "Slab512Bytes" -> "slab_512_bytes"
    [] which = "Slab1024Bytes" -> "slab_1024_bytes"
    [] which = "Slab2048Bytes" -> "slab_2048_bytes"
    [] which = "Slab4096Bytes" -> "slab_4096_bytes"
    [] which = "LinkedListAllocator" -> "linked_list_allocator"

\* Heap::grow (lib.rs:98-109).  The arm of the large-block allocator passes
\* mem_size only.  The result is [ok, heap, mem]; ok = FALSE is a panic.
Heap_grow(h, m, mem_start_addr, mem_size, slab, holes) ==
  LET field == GrowArm(slab)
  IN
  IF field = "linked_list_allocator"
  THEN [ok |-> TRUE,
        heap |-> [h EXCEPT !.linked_list_allocator =
                     LLA_extend(h.linked_list_allocator, holes, mem_size)],
        mem |-> m]
  ELSE LET r == Slab_grow(h[field], m, mem_start_addr, mem_size)
       IN [ok |-> r.ok, heap |-> [h EXCEPT ![field] = r.slab], mem |-> r.mem]

(***************************************************************************)
(* Inputs                                                                  *)
(***************************************************************************)
Layout(size, align) == [size |-> size, align |-> align]

\* the layouts requested from a heap: every sub-allocator is the target of
\* one of them; (8, 8192) asks for more alignment than a page, (32769, 8)
\* for more bytes than a minimal heap holds
HeapLayouts ==
  {Layout(0, 256), Layout(16, 8), Layout(24, 8), Layout(24, 64), Layout(24, 512),
   Layout(80, 8), Layout(1000, 8), Layout(2048, 8), Layout(4096, 8),
   Layout(8, 8192), Layout(4097, 8), Layout(MIN_HEAP_SIZE + 1, 8)}

\* arguments of Heap::new: every page of the address space as start, two
\* starts that are not page-aligned, one of them eight bytes past the start
\* whose minimal heap ends with the address space; as size the minimal heap
\* and twice that (where a usize can hold it), one size that is too small and
\* one that is not a multiple of the minimal heap
PageStarts == {p * 4096 : p \in 0 .. (UsizeMod \div 4096) - 1}
HeapStarts == PageStarts \cup {4096 + 8, UsizeMod - (NUM_OF_SLABS - 1) * MIN_SLAB_SIZE + 8}
HeapSizes ==
  {sz \in {MIN_SLAB_SIZE, MIN_HEAP_SIZE, MIN_HEAP_SIZE + MIN_SLAB_SIZE, 2 * MIN_HEAP_SIZE} :
     sz < UsizeMod}

\* addresses at which the frame of Heap::new may hold its local heap_bottom
StackAddrs == {1000}

\* The first hole of the large-block allocator is stored in the region it
\* was given, which is the frame of Heap::new and dead once Heap::new has
\* returned.  A later read of the hole list finds what the allocator wrote,
\* or what later frames wrote over it: no hole, or one hole of arbitrary size.
HoleViews(lla) ==
  {lla.holes, <<>>, <<[addr |-> lla.bottom, size |-> UsizeMod - 1 - lla.bottom]>>}

(***************************************************************************)
(* State                                                                   *)
(***************************************************************************)
VARIABLES
  overflow_checks,  \* build: does integer overflow panic (debug) or wrap (release)
  heap,             \* the Heap, or NoHeap before Heap::new has returned one
  mem,              \* the FreeBlock nodes stored in the managed memory
  outstanding,      \* allocations handed out and not yet given back: [ptr, layout]
  last,             \* the last call and what it returned
  calls,            \* number of allocate, deallocate and grow calls made on the heap
  unwind,           \* build: does a panic unwind (dropping guards) or never return
  lock,             \* the context that holds the spin lock of the LockedHeap, or Unlocked
  pc,               \* per context: where it is in its call on the LockedHeap
  req,              \* per context: its call, the locals of the call and its result
  inits,            \* number of Heaps built for the LockedHeap, by new and by init
  plain,            \* the plain Heap that is given the same requests as the LockedHeap
  hist              \* per slab: freed, the ptr given back by the last call on the
                    \* slab (None if that call was not a deallocate); others, the
                    \* number of calls on other sub-allocators since; fresh, the
                    \* number of allocations made while nothing was ever given
                    \* back (-1 afterwards)

lockedVars == <<unwind, lock, pc, req, inits, plain>>

vars == <<overflow_checks, heap, mem, outstanding, last, calls, hist, unwind, lock, pc, req,
          inits, plain>>

\* number of execution contexts that share the LockedHeap
NumCtx == 2
Ctx == 1 .. NumCtx

Unlocked == 0

EmptyMem == [a \in {} |-> [next |-> None, prev |-> None]]

NoCall == [op |-> "none"]

NoPlain == [heap |-> [kind |-> "None"], mem |-> EmptyMem]

InitHist == [w \in SlabAllocators |-> [freed |-> None, others |-> 0, fresh |-> 0]]

\* hist after a call on sub-allocator which that leaves entry on its slab
Record(h, which, entry) ==
  [w \in SlabAllocators |->
     IF w = which THEN entry
     ELSE [h[w] EXCEPT !.others = IF h[w].freed = None THEN 0 ELSE @ + 1]]

Init ==
  /\ overflow_checks \in BOOLEAN
  /\ heap = NoHeap
  /\ mem = EmptyMem
  /\ outstanding = {}
  /\ last = NoCall
  /\ calls = 0
  /\ hist = InitHist
  /\ unwind = TRUE
  /\ lock = Unlocked
  /\ pc = [c \in Ctx |-> "idle"]
  /\ req = [c \in Ctx |-> NoCall]
  /\ inits = 0
  /\ plain = NoPlain

\* h = Heap::new(heap_start_addr, heap_size)
New(heap_start_addr, heap_size, heap_bottom_ptr) ==
  /\ heap.kind = "None"
  /\ last.op = "none"
  /\ \E r \in {Heap_new(mem, heap_start_addr, heap_size, overflow_checks, heap_bottom_ptr)} :
        /\ heap' = r.heap
        /\ mem' = r.mem
        /\ last' = [op |-> "new", start |-> heap_start_addr, size |-> heap_size,
                    ok |-> r.ok]
  /\ outstanding' = {}
  /\ calls' = 0
  /\ hist' = InitHist
  /\ UNCHANGED <<overflow_checks, lockedVars>>

\* heap.allocate(layout)
Allocate(layout) ==
  /\ heap.kind = "Some"
  /\ calls < MaxCalls
  /\ calls' = calls + 1
  /\ \E holes \in HoleViews(heap.linked_list_allocator) :
       \E r \in {Heap_allocate(heap, mem, layout, holes)} :
       LET which == layout_to_allocator(layout)
       IN /\ heap' = r.heap
          /\ mem' = r.mem
          /\ outstanding' = IF r.ok
                            THEN outstanding \cup {[ptr |-> r.ptr, layout |-> layout]}
                            ELSE outstanding
          /\ last' = [op |-> "allocate", layout |-> layout, ok |-> r.ok, ptr |-> r.ptr,
                      which |-> which,
                      freed |-> IF which \in SlabAllocators THEN hist[which].freed
                                ELSE None,
                      others |-> IF which \in SlabAllocators THEN hist[which].others
                                 ELSE 0,
                      k |-> IF which \in SlabAllocators /\ hist[which].fresh >= 0 /\ r.ok
                            THEN hist[which].fresh + 1 ELSE 0]
          /\ hist' = Record(hist, which,
                            IF which \in SlabAllocators
                            THEN [freed |-> None, others |-> 0,
                                  fresh |-> IF hist[which].fresh >= 0 /\ r.ok
                                            THEN hist[which].fresh + 1
                                            ELSE hist[which].fresh]
                            ELSE None)
  /\ UNCHANGED <<overflow_checks, lockedVars>>

\* heap.deallocate(ptr, layout) of an allocation that is outstanding, with the
\* layout it was allocated with
Deallocate(o) ==
  /\ heap.kind = "Some"
  /\ calls < MaxCalls
  /\ calls' = calls + 1
  /\ o \in outstanding
  /\ \E holes \in HoleViews(heap.linked_list_allocator) :
       \E r \in {Heap_deallocate(heap, mem, o.ptr, o.layout, holes)} :
       LET which == layout_to_allocator(o.layout)
       IN /\ heap' = r.heap
          /\ mem' = r.mem
          /\ last' = [op |-> "deallocate", layout |-> o.layout, ptr |-> o.ptr,
                      which |-> which]
          /\ hist' = Record(hist, which, [freed |-> o.ptr, others |-> 0, fresh |-> -1])
  /\ outstanding' = outstanding \ {o}
  /\ UNCHANGED <<overflow_checks, lockedVars>>

Next ==
  \/ \E a \in HeapStarts, s \in HeapSizes, p \in StackAddrs : New(a, s, p)
  \/ \E l \in HeapLayouts : Allocate(l)
  \/ \E o \in outstanding : Deallocate(o)

Spec == Init /\ [][Next]_vars

(***************************************************************************)
(* LockedHeap: one Mutex<Option<Heap>> shared by several contexts          *)
(***************************************************************************)
\* bounds on the init calls and on the other calls made on one LockedHeap
MaxInits == 2
MaxLockedCalls == 4

\* self.0.lock() spins until no context holds the mutex
CanLock_Always(lk) == TRUE

CanLock(lk) == lk = Unlocked

\* how the part of a call that runs under the lock ends
Returned(ok, ptr, usable, h, m) ==
  [outcome |-> "return", msg |-> "", ok |-> ok, ptr |-> ptr, usable |-> usable,
   heap |-> h, mem |-> m]

Panicked(msg, h, m) ==
  [outcome |-> "panic", msg |-> msg, ok |-> FALSE, ptr |-> None, usable |-> <<0, 0>>,
   heap |-> h, mem |-> m]

\* *guard = Some(built): the Heap that init built replaces what the mutex held
LockedHeap_init(h, m, built) == Returned(TRUE, None, <<0, 0>>, built, m)

\* <&LockedHeap as Allocator>::allocate
LockedHeap_allocate_PanicOnErr(h, m, layout, holes) ==
  IF h.kind = "Some"
  THEN LET r == Heap_allocate(h, m, layout, holes)
       IN IF r.ok THEN Returned(TRUE, r.ptr, <<0, 0>>, r.heap, r.mem)
          ELSE Panicked("allocate: failed", r.heap, r.mem)
  ELSE Panicked("allocate: heap not initialized", h, m)

LockedHeap_allocate(h, m, layout, holes) ==
  IF h.kind = "Some"
  THEN LET r == Heap_allocate(h, m, layout, holes)
       IN Returned(r.ok, r.ptr, <<0, 0>>, r.heap, r.mem)
  ELSE Panicked("allocate: heap not initialized", h, m)

\* <&LockedHeap as Allocator>::deallocate
LockedHeap_deallocate_Take(h, m, ptr, layout, holes) ==
  IF h.kind = "Some"
  THEN LET r == Heap_deallocate(h, m, ptr, layout, holes)
       IN Returned(TRUE, None, <<0, 0>>, NoHeap, r.mem)
  ELSE Panicked("deallocate: heap not initialized", h, m)

LockedHeap_deallocate(h, m, ptr, layout, holes) ==
  IF h.kind = "Some"
  THEN LET r == Heap_deallocate(h, m, ptr, layout, holes)
       IN Returned(TRUE, None, <<0, 0>>, r.heap, r.mem)
  ELSE Panicked("deallocate: heap not initialized", h, m)

\* LockedHeap::usable_size
LockedHeap_usable_size(h, m, layout) ==
  IF h.kind = "Some"
  THEN Returned(TRUE, None, usable_size(layout), h, m)
  ELSE Panicked("usable_size: heap not initialized", h, m)

\* <LockedHeap as GlobalAlloc>::alloc
GlobalAlloc_alloc_NullWhenEmpty(h, m, layout, holes) ==
  IF h.kind = "Some"
  THEN LET r == Heap_allocate(h, m, layout, holes)
       IN IF r.ok THEN Returned(TRUE, r.ptr, <<0, 0>>, r.heap, r.mem)
          ELSE Panicked("allocate: failed", r.heap, r.mem)
  ELSE Returned(TRUE, None, <<0, 0>>, h, m)

GlobalAlloc_alloc_NullOnFailure(h, m, layout, holes) ==
  IF h.kind = "Some"
  THEN LET r == Heap_allocate(h, m, layout, holes)
       IN Returned(r.ok, r.ptr, <<0, 0>>, r.heap, r.mem)
  ELSE Panicked("allocate: heap not initialzied", h, m)

GlobalAlloc_alloc(h, m, layout, holes) ==
  IF h.kind = "Some"
  THEN LET r == Heap_allocate(h, m, layout, holes)
       IN IF r.ok THEN Returned(TRUE, r.ptr, <<0, 0>>, r.heap, r.mem)
          ELSE Panicked("allocate: failed", r.heap, r.mem)
  ELSE Panicked("allocate: heap not initialzied", h, m)

\* <LockedHeap as GlobalAlloc>::dealloc
GlobalAlloc_dealloc(h, m, ptr, layout, holes) ==
  IF h.kind = "Some"
  THEN IF ptr # None
       THEN LET r == Heap_deallocate(h, m, ptr, layout, holes)
            IN Returned(TRUE, None, <<0, 0>>, r.heap, r.mem)
       ELSE Returned(TRUE, None, <<0, 0>>, h, m)
  ELSE Panicked("deallocate: heap not initialized", h, m)

\* the body of the call rq, run on what the guard dereferences to
LockedHeap_call(rq, h, m, holes) ==
  CASE rq.op = "init" -> LockedHeap_init(h, m, rq.built)
    [] rq.op = "allocate" -> LockedHeap_allocate(h, m, rq.layout, holes)
    [] rq.op = "deallocate" -> LockedHeap_deallocate(h, m, rq.ptr, rq.layout, holes)
    [] rq.op = "usable_size" -> LockedHeap_usable_size(h, m, rq.layout)
    [] rq.op = "alloc" -> GlobalAlloc_alloc(h, m, rq.layout, holes)
    [] rq.op = "dealloc" -> GlobalAlloc_dealloc(h, m, rq.ptr, rq.layout, holes)

\* inputs of the calls on the LockedHeap
\* the one layout Slab4096Bytes serves from its single block of a minimal heap,
\* so that the second allocation of it fails
LockedLayouts == {Layout(4096, 8)}
LockedStarts == {MIN_SLAB_SIZE, UsizeMod - (NUM_OF_SLABS - 1) * MIN_SLAB_SIZE}
AllocOps == {"allocate", "alloc"}
FreeOps == {"deallocate", "dealloc"}

\* pointers a caller may pass that no allocation returned: null to dealloc,
\* and, while no init was called, any address to deallocate
NullFree == [ptr |-> None, layout |-> Layout(4096, 8)]
StrayFree == [ptr |-> MIN_SLAB_SIZE, layout |-> Layout(4096, 8)]

Request(op, layout, ptr, start, size, stray) ==
  [op |-> op, layout |-> layout, ptr |-> ptr, start |-> start, size |-> size,
   stray |-> stray, built |-> NoHeap, result |-> "pending", msg |-> "", ok |-> FALSE,
   rptr |-> None, usable |-> <<0, 0>>]

\* the sub-allocator field the arms of allocate and deallocate work on for layout
FieldOf(layout) == AllocateArm(layout_to_allocator(layout))

\* last in LockedSpec: failed, the layouts whose last allocate returned Err
\* with no allocation from their slab since; refilled, those of failed whose
\* slab got a block back since; recovered, the layout of refilled that the
\* last body allocated
NoRecovery == [op |-> "locked", failed |-> {}, refilled |-> {}, recovered |-> {}]

Failed(l) == IF l.op = "locked" THEN l.failed ELSE {}
Refilled(l) == IF l.op = "locked" THEN l.refilled ELSE {}
Recovered(l) == IF l.op = "locked" THEN l.recovered ELSE {}

Recovery(l, rq, r, h) ==
  LET same == {x \in Failed(l) : FieldOf(x) = FieldOf(rq.layout)}
  IN IF rq.op = "init" THEN NoRecovery
     ELSE IF h.kind # "Some" \/ r.outcome = "panic"
     THEN [op |-> "locked", failed |-> Failed(l), refilled |-> Refilled(l),
           recovered |-> {}]
     ELSE IF rq.op \in {"allocate", "alloc"} /\ r.ok
     THEN [op |-> "locked", failed |-> Failed(l) \ same, refilled |-> Refilled(l) \ same,
           recovered |-> IF rq.op = "allocate" THEN Refilled(l) \cap {rq.layout} ELSE {}]
     ELSE IF rq.op = "allocate"
     THEN [op |-> "locked", failed |-> Failed(l) \cup {rq.layout},
           refilled |-> Refilled(l) \ {rq.layout}, recovered |-> {}]
     ELSE IF rq.op \in {"deallocate", "dealloc"} /\ rq.ptr # None
     THEN [op |-> "locked", failed |-> Failed(l), refilled |-> Refilled(l) \cup same,
           recovered |-> {}]
     ELSE [op |-> "locked", failed |-> Failed(l), refilled |-> Refilled(l),
           recovered |-> {}]

StrayInFlight == \E c \in Ctx : pc[c] \in {"wait", "held"} /\ req[c].stray

LockedInit ==
  /\ overflow_checks \in BOOLEAN
  /\ heap = NoHeap
  /\ mem = EmptyMem
  /\ outstanding = {}
  /\ last = NoCall
  /\ calls = 0
  /\ hist = InitHist
  /\ unwind \in BOOLEAN
  /\ lock = Unlocked
  /\ pc = [c \in Ctx |-> "idle"]
  /\ req = [c \in Ctx |-> NoCall]
  /\ inits = 0
  /\ plain = NoPlain

\* LockedHeap::new(heap_start_addr, heap_size): the mutex holds the Heap that
\* Heap::new returned; there is no LockedHeap when Heap::new panics
LockedNew(heap_start_addr, heap_size, heap_bottom_ptr) ==
  /\ overflow_checks \in BOOLEAN
  /\ \E r \in {Heap_new(EmptyMem, heap_start_addr, heap_size, overflow_checks,
                         heap_bottom_ptr)} :
       /\ r.ok
       /\ heap = r.heap
       /\ mem = r.mem
  /\ outstanding = {}
  /\ last = NoRecovery
  /\ calls = 0
  /\ hist = InitHist
  /\ unwind \in BOOLEAN
  /\ lock = Unlocked
  /\ pc = [c \in Ctx |-> "idle"]
  /\ req = [c \in Ctx |-> NoCall]
  /\ inits = 1
  /\ plain = NoPlain

\* context c enters init(heap_start_addr, size): the operand Heap::new(..) of
\* the assignment is evaluated before the place *self.0.lock()
CallInit(c, heap_start_addr, size) ==
  /\ pc[c] = "idle"
  /\ inits < MaxInits
  /\ ~StrayInFlight
  /\ inits' = inits + 1
  /\ pc' = [pc EXCEPT ![c] = "start"]
  /\ req' = [req EXCEPT ![c] = Request("init", Layout(0, 1), None, heap_start_addr, size,
                                       FALSE)]
  /\ UNCHANGED <<overflow_checks, heap, mem, outstanding, last, calls, hist, unwind, lock, plain>>

\* Heap::new inside init, run by c without the lock
InitNew(c, heap_bottom_ptr) ==
  /\ pc[c] = "start"
  /\ \E r \in {Heap_new(mem, req[c].start, req[c].size, overflow_checks, heap_bottom_ptr)} :
        /\ mem' = r.mem
        /\ pc' = [pc EXCEPT ![c] = IF r.ok THEN "wait" ELSE "panicked"]
        /\ req' = [req EXCEPT ![c].built = r.heap,
                              ![c].result = IF r.ok THEN "pending" ELSE "panic",
                              ![c].msg = IF r.ok THEN "" ELSE "Heap::new"]
  /\ UNCHANGED <<overflow_checks, heap, outstanding, last, calls, hist, unwind, lock,
                 inits, plain>>

\* context c enters allocate, alloc or usable_size
CallLayout(c, op, layout) ==
  /\ pc[c] = "idle"
  /\ calls < MaxLockedCalls
  /\ calls' = calls + 1
  /\ pc' = [pc EXCEPT ![c] = "wait"]
  /\ req' = [req EXCEPT ![c] = Request(op, layout, None, 0, 0, FALSE)]
  /\ UNCHANGED <<overflow_checks, heap, mem, outstanding, last, hist, unwind, lock, inits, plain>>

\* context c enters deallocate or dealloc with an allocation it owns, with
\* null (dealloc) or, before any init, with a pointer it never got (deallocate)
CallFree(c, op, o) ==
  /\ pc[c] = "idle"
  /\ calls < MaxLockedCalls
  /\ \/ o \in outstanding
     \/ op = "dealloc" /\ o = NullFree
     \/ op = "deallocate" /\ o = StrayFree /\ inits = 0
  /\ calls' = calls + 1
  /\ outstanding' = outstanding \ {o}
  /\ pc' = [pc EXCEPT ![c] = "wait"]
  /\ req' = [req EXCEPT ![c] = Request(op, o.layout, o.ptr, 0, 0,
                                       o \notin outstanding /\ o = StrayFree)]
  /\ UNCHANGED <<overflow_checks, heap, mem, last, hist, unwind, lock, inits, plain>>

\* self.0.lock() returns its guard to c
Acquire(c) ==
  /\ pc[c] = "wait"
  /\ CanLock(lock)
  /\ lock' = c
  /\ pc' = [pc EXCEPT ![c] = "held"]
  /\ UNCHANGED <<overflow_checks, heap, mem, outstanding, last, calls, hist, unwind, req,
                 inits, plain>>

\* c runs the body of its call under the guard; a panic in it unwinds through
\* the guard, which unlocks, or never returns and leaves the mutex locked
Body(c) ==
  /\ pc[c] = "held"
  /\ \E holes \in (IF heap.kind = "Some" THEN HoleViews(heap.linked_list_allocator)
                   ELSE {<<>>}) :
       \E r \in {LockedHeap_call(req[c], heap, mem, holes)} :
          /\ heap' = r.heap
          /\ mem' = r.mem
          /\ req' = [req EXCEPT ![c].result = r.outcome, ![c].msg = r.msg,
                                ![c].ok = r.ok, ![c].rptr = r.ptr,
                                ![c].usable = r.usable]
          /\ pc' = [pc EXCEPT ![c] = IF r.outcome = "return" THEN "release"
                                     ELSE "panicked"]
          /\ lock' = IF r.outcome = "panic" /\ unwind THEN Unlocked ELSE lock
          /\ outstanding' =
               IF req[c].op = "init" THEN {}
               ELSE IF req[c].op \in AllocOps /\ r.outcome = "return" /\ r.ok
               THEN outstanding \cup {[ptr |-> r.ptr, layout |-> req[c].layout]}
               ELSE outstanding
          /\ last' = Recovery(last, req[c], r, heap)
  /\ UNCHANGED <<overflow_checks, calls, hist, unwind, inits, plain>>

\* a return that forgets the guard instead of dropping it
Release_KeepLock(c) ==
  /\ pc[c] = "release"
  /\ lock' = lock
  /\ pc' = [pc EXCEPT ![c] = "idle"]
  /\ req' = [req EXCEPT ![c] = NoCall]
  /\ UNCHANGED <<overflow_checks, heap, mem, outstanding, last, calls, hist, unwind,
                 inits, plain>>

\* the guard of c is dropped at the end of the statement and the call returns
Release(c) ==
  /\ pc[c] = "release"
  /\ lock' = Unlocked
  /\ pc' = [pc EXCEPT ![c] = "idle"]
  /\ req' = [req EXCEPT ![c] = NoCall]
  /\ UNCHANGED <<overflow_checks, heap, mem, outstanding, last, calls, hist, unwind,
                 inits, plain>>

LockedNext ==
  \/ \E c \in Ctx, a \in LockedStarts : CallInit(c, a, MIN_HEAP_SIZE)
  \/ \E c \in Ctx, p \in StackAddrs : InitNew(c, p)
  \/ \E c \in Ctx, op \in AllocOps \cup {"usable_size"}, l \in LockedLayouts :
       CallLayout(c, op, l)
  \/ \E c \in Ctx, op \in FreeOps, o \in outstanding \cup {NullFree, StrayFree} :
       CallFree(c, op, o)
  \/ \E c \in Ctx : Acquire(c)
  \/ \E c \in Ctx : Body(c)
  \/ \E c \in Ctx : Release(c)

LockedConstructed ==
  \/ LockedInit
  \/ \E a \in LockedStarts, p \in StackAddrs : LockedNew(a, MIN_HEAP_SIZE, p)

LockedSpec == LockedConstructed /\ [][LockedNext]_vars

(***************************************************************************)
(* A plain Heap and a LockedHeap given the same requests by one caller      *)
(* (test.rs:100-166): allocate / deallocate on the one, alloc / dealloc on  *)
(* the other, each call run to its end before the next                      *)
(***************************************************************************)
ParityLayouts ==
  {Layout(16, 8), Layout(24, 8), Layout(24, 64), Layout(80, 8), Layout(4097, 8)}

\* Heap::new(heap_start_addr, size) and LockedHeap::empty().init(heap_start_addr, size)
ParityNew(heap_start_addr, size, plain_bottom_ptr, locked_bottom_ptr) ==
  /\ last.op = "none"
  /\ \E r1 \in {Heap_new(EmptyMem, heap_start_addr, size, overflow_checks,
                         plain_bottom_ptr)},
        r2 \in {Heap_new(mem, heap_start_addr, size, overflow_checks,
                         locked_bottom_ptr)} :
       /\ plain' = [heap |-> r1.heap, mem |-> r1.mem]
       /\ heap' = IF r2.ok THEN LockedHeap_init(heap, r2.mem, r2.heap).heap ELSE heap
       /\ mem' = r2.mem
       /\ last' = [op |-> "parity_new", start |-> heap_start_addr, size |-> size,
                   ok |-> r1.ok /\ r2.ok]
       /\ inits' = inits + 1
  /\ UNCHANGED <<overflow_checks, outstanding, calls, hist, unwind, lock, pc, req>>

\* heap.allocate(layout) and locked_heap.alloc(layout)
ParityAlloc(layout) ==
  /\ last.op \in {"parity_new", "parity_alloc", "parity_dealloc"}
  /\ last.ok
  /\ calls < MaxCalls
  /\ calls' = calls + 1
  /\ \E h1 \in HoleViews(plain.heap.linked_list_allocator),
        h2 \in HoleViews(heap.linked_list_allocator) :
       \E r1 \in {Heap_allocate(plain.heap, plain.mem, layout, h1)},
          r2 \in {GlobalAlloc_alloc(heap, mem, layout, h2)} :
         /\ plain' = [heap |-> r1.heap, mem |-> r1.mem]
         /\ heap' = r2.heap
         /\ mem' = r2.mem
         /\ last' = [op |-> "parity_alloc", start |-> last.start, size |-> last.size,
                     ok |-> r1.ok /\ r2.outcome = "return", layout |-> layout,
                     plain_ptr |-> r1.ptr, locked_ptr |-> r2.ptr]
         /\ outstanding' =
              IF r1.ok /\ r2.outcome = "return"
              THEN outstanding \cup {[ptr |-> r2.ptr, plain_ptr |-> r1.ptr,
                                      layout |-> layout]}
              ELSE outstanding
  /\ UNCHANGED <<overflow_checks, hist, unwind, lock, pc, req, inits>>

\* heap.deallocate(ptr, layout) and locked_heap.dealloc(ptr, layout) of a pair
\* of allocations made by the same request
ParityDealloc(o) ==
  /\ last.op \in {"parity_alloc", "parity_dealloc"}
  /\ last.ok
  /\ calls < MaxCalls
  /\ calls' = calls + 1
  /\ o \in outstanding
  /\ \E h1 \in HoleViews(plain.heap.linked_list_allocator),
        h2 \in HoleViews(heap.linked_list_allocator) :
       \E r1 \in {Heap_deallocate(plain.heap, plain.mem, o.plain_ptr, o.layout, h1)},
          r2 \in {GlobalAlloc_dealloc(heap, mem, o.ptr, o.layout, h2)} :
         /\ plain' = [heap |-> r1.heap, mem |-> r1.mem]
         /\ heap' = r2.heap
         /\ mem' = r2.mem
         /\ last' = [op |-> "parity_dealloc", start |-> last.start, size |-> last.size,
                     ok |-> r2.outcome = "return", layout |-> o.layout,
                     plain_ptr |-> o.plain_ptr, locked_ptr |-> o.ptr]
  /\ outstanding' = outstanding \ {o}
  /\ UNCHANGED <<overflow_checks, hist, unwind, lock, pc, req, inits>>

ParityNext ==
  \/ \E a \in LockedStarts, p1 \in StackAddrs, p2 \in StackAddrs :
       ParityNew(a, MIN_HEAP_SIZE, p1, p2)
  \/ \E l \in ParityLayouts : ParityAlloc(l)
  \/ \E o \in outstanding : ParityDealloc(o)

ParitySpec == LockedInit /\ [][ParityNext]_vars

(***************************************************************************)
(* Fairly scheduled contexts calling allocate, deallocate, alloc, dealloc  *)
(***************************************************************************)
CallsNext ==
  \/ \E c \in Ctx, op \in AllocOps, l \in LockedLayouts : CallLayout(c, op, l)
  \/ \E c \in Ctx, op \in FreeOps, o \in outstanding \cup {NullFree, StrayFree} :
       CallFree(c, op, o)
  \/ \E c \in Ctx : Acquire(c)
  \/ \E c \in Ctx : Body(c)
  \/ \E c \in Ctx : Release(c)

\* every context keeps running: a context inside a call takes its next step,
\* and a context that spins in lock() while the mutex is free again and again
\* gets it
Fairness ==
  \A c \in Ctx : /\ SF_vars(Acquire(c))
                 /\ WF_vars(Body(c))
                 /\ WF_vars(Release(c))

FairSpec == LockedConstructed /\ [][CallsNext]_vars /\ Fairness

(***************************************************************************)
(* Calls on the LockedHeap made by the panic handler of a call on it       *)
(***************************************************************************)
\* the lock once the guard of lock() was dropped before panic! runs
LockAtPanic_GuardDropped(lk) == Unlocked

\* the lock while panic! runs in the else branch of `if let .. =
\* *self.0.lock()`: the guard is a temporary of the condition and lives to
\* the end of the statement (lib.rs:222-226, 230-234, 250-258, 262-268)
LockAtPanic(lk) == lk

\* c made its pending call from the panic handler of its call req[c].outer
Reentered(c) == "outer" \in DOMAIN req[c]

\* the body of the call of c panics; the panic handler runs in c before any
\* unwinding and calls op on the same LockedHeap, with an allocation c
\* owns or with null when op frees
PanicHandlerCall(c, op, o) ==
  /\ pc[c] = "held"
  /\ calls < MaxLockedCalls
  /\ op \in FreeOps => o \in outstanding \/ (op = "dealloc" /\ o = NullFree)
  /\ op \in AllocOps => o = NullFree
  /\ calls' = calls + 1
  /\ \E holes \in (IF heap.kind = "Some" THEN HoleViews(heap.linked_list_allocator)
                   ELSE {<<>>}) :
       \E r \in {LockedHeap_call(req[c], heap, mem, holes)} :
          /\ r.outcome = "panic"
          /\ heap' = r.heap
          /\ mem' = r.mem
          /\ last' = Recovery(last, req[c], r, heap)
          /\ req' = [req EXCEPT ![c] =
                       Request(op, o.layout, o.ptr, 0, 0, FALSE)
                       @@ [outer |-> [req[c] EXCEPT !.result = r.outcome,
                                                    !.msg = r.msg]]]
  /\ lock' = LockAtPanic(lock)
  /\ pc' = [pc EXCEPT ![c] = "wait"]
  /\ outstanding' = outstanding \ {o}
  /\ UNCHANGED <<overflow_checks, hist, unwind, inits, plain>>

ReentrantNext ==
  \/ LockedNext
  \/ \E c \in Ctx, op \in AllocOps \cup FreeOps, o \in outstanding \cup {NullFree} :
       PanicHandlerCall(c, op, o)

ReentrantSpec == LockedConstructed /\ [][ReentrantNext]_vars

(***************************************************************************)
(* The heap under requests of size 0                                       *)
(***************************************************************************)
ZeroSizeLayouts ==
  {Layout(0, 1), Layout(0, 64), Layout(0, 128), Layout(0, 2048), Layout(0, 4096),
   Layout(16, 8), Layout(4097, 8)}

ZeroSizeNext ==
  \/ \E a \in HeapStarts, s \in HeapSizes, p \in StackAddrs : New(a, s, p)
  \/ \E l \in ZeroSizeLayouts : Allocate(l)
  \/ \E o \in outstanding : Deallocate(o)

ZeroSizeSpec == Init /\ [][ZeroSizeNext]_vars

(***************************************************************************)
(* The heap given more memory with Heap::grow                              *)
(***************************************************************************)
\* the start at which Heap::new builds a heap (lib.rs:75)
GrowHeapStart == UsizeMod - (NUM_OF_SLABS - 1) * MIN_SLAB_SIZE

\* regions handed to grow: pages below the heap; the lengths are a multiple
\* of every block size and a multiple of the block sizes up to 2048 only
GrowStarts == {2 * MIN_SLAB_SIZE, 3 * MIN_SLAB_SIZE}
GrowSizes == {4096, 2048}

\* the sub-allocators given memory: the slab with the most blocks, the three
\* with the fewest and the large-block allocator
GrowTargets ==
  {"Slab64Bytes", "Slab1024Bytes", "Slab2048Bytes", "Slab4096Bytes",
   "LinkedListAllocator"}

\* requests served by the slabs with the fewest blocks
GrowLayouts == {Layout(2048, 8), Layout(4096, 8)}

\* [mem_start_addr, mem_start_addr + mem_size) is used for nothing else: it
\* is outside the region the heap was built over and holds no block
UnusedRegion(mem_start_addr, mem_size) ==
  /\ \/ mem_start_addr + mem_size <= heap.slab_64_bytes.start_addr
     \/ mem_start_addr >= heap.slab_64_bytes.start_addr
                          + heap.slab_64_bytes.slab_size * NUM_OF_SLABS
  /\ \A a \in DOMAIN mem : a < mem_start_addr \/ a >= mem_start_addr + mem_size

\* heap.grow(mem_start_addr, mem_size, slab), by a caller that hands out its
\* pages from the lowest up
Grow(mem_start_addr, mem_size, slab) ==
  /\ heap.kind = "Some"
  /\ calls < MaxCalls
  /\ calls' = calls + 1
  /\ UnusedRegion(mem_start_addr, mem_size)
  /\ \A a \in GrowStarts : a < mem_start_addr => ~UnusedRegion(a, 1)
  /\ \E holes \in HoleViews(heap.linked_list_allocator) :
       \E r \in {Heap_grow(heap, mem, mem_start_addr, mem_size, slab, holes)} :
          /\ heap' = r.heap
          /\ mem' = r.mem
          /\ last' = [op |-> "grow", start |-> mem_start_addr, size |-> mem_size,
                      which |-> slab, ok |-> r.ok]
  /\ UNCHANGED <<overflow_checks, outstanding, hist, lockedVars>>

GrowNext ==
  \/ \E p \in StackAddrs : New(GrowHeapStart, MIN_HEAP_SIZE, p)
  \/ \E a \in GrowStarts, s \in GrowSizes, w \in GrowTargets : Grow(a, s, w)
  \/ \E l \in GrowLayouts : Allocate(l)
  \/ \E o \in outstanding : Deallocate(o)

GrowSpec == Init /\ [][GrowNext]_vars

(***************************************************************************)
(* One heap under valid allocate and deallocate calls                      *)
(***************************************************************************)
\* requests served by the slab with the most blocks, by the three slabs with
\* the fewest, of which the last two run empty within the calls made, by a
\* slab chosen for the alignment, and by the large-block allocator
SlabLayouts ==
  {Layout(16, 8), Layout(1000, 8), Layout(2048, 8), Layout(4096, 8), Layout(24, 512),
   Layout(4097, 8)}

SlabsNext ==
  \/ \E p \in StackAddrs : New(GrowHeapStart, MIN_HEAP_SIZE, p)
  \/ \E l \in SlabLayouts : Allocate(l)
  \/ \E o \in outstanding : Deallocate(o)

SlabsSpec == Init /\ [][SlabsNext]_vars

(***************************************************************************)
(* Contexts racing for the blocks of one slab through alloc and dealloc.   *)
(* The body of a call is two steps, the reads of the free list and the     *)
(* writes that follow them (slab.rs:138-150, 168-182); plain is the Heap    *)
(* that gets the same calls one after the other, in the order of the       *)
(* writes.                                                                 *)
(***************************************************************************)
\* the slab of 2048-byte blocks has two blocks
RaceLayouts == {Layout(2048, 8)}

\* LockedHeap::new(heap_start_addr, MIN_HEAP_SIZE) has returned
RaceInit ==
  /\ overflow_checks = FALSE
  /\ \E p \in StackAddrs :
       \E r \in {Heap_new(EmptyMem, GrowHeapStart, MIN_HEAP_SIZE, overflow_checks, p)} :
          /\ r.ok
          /\ heap = r.heap
          /\ mem = r.mem
          /\ plain = [heap |-> r.heap, mem |-> r.mem]
  /\ outstanding = {}
  /\ last = NoCall
  /\ calls = 0
  /\ hist = InitHist
  /\ unwind \in BOOLEAN
  /\ lock = Unlocked
  /\ pc = [c \in Ctx |-> "idle"]
  /\ req = [c \in Ctx |-> NoCall]
  /\ inits = 1

\* c, having the guard, reads the Heap and the nodes its call works on
BodyRead(c) ==
  /\ pc[c] = "held"
  /\ pc' = [pc EXCEPT ![c] = "body"]
  /\ req' = [req EXCEPT ![c] = req[c] @@ [seen |-> [heap |-> heap, mem |-> mem]]]
  /\ UNCHANGED <<overflow_checks, heap, mem, outstanding, last, calls, hist, unwind, lock,
                 inits, plain>>

\* c writes what its call makes of what it read: the field of the slab and
\* the nodes it changed; the call returns or panics
BodyWrite(c) ==
  /\ pc[c] = "body"
  /\ \E r \in {LockedHeap_call(req[c], req[c].seen.heap, req[c].seen.mem, <<>>)},
        s \in {LockedHeap_call(req[c], plain.heap, plain.mem, <<>>)} :
       LET f == FieldOf(req[c].layout)
       IN /\ heap' = [heap EXCEPT ![f] = r.heap[f]]
          /\ mem' = [a \in DOMAIN mem |->
                       IF r.mem[a] # req[c].seen.mem[a] THEN r.mem[a] ELSE mem[a]]
          /\ plain' = [heap |-> s.heap, mem |-> s.mem]
          /\ req' = [req EXCEPT ![c].result = r.outcome, ![c].msg = r.msg,
                                ![c].ok = r.ok, ![c].rptr = r.ptr,
                                ![c].seen = NoCall]
          /\ pc' = [pc EXCEPT ![c] = IF r.outcome = "return" THEN "release"
                                     ELSE "panicked"]
          /\ lock' = IF r.outcome = "panic" /\ unwind THEN Unlocked ELSE lock
          /\ outstanding' =
               IF req[c].op \in AllocOps /\ r.outcome = "return" /\ r.ok
               THEN outstanding \cup {[ptr |-> r.ptr, layout |-> req[c].layout]}
               ELSE outstanding
          /\ last' = [op |-> "raced", ctx |-> c, call |-> req[c].op,
                      outcome |-> r.outcome, ptr |-> r.ptr,
                      plain_outcome |-> s.outcome, plain_ptr |-> s.ptr]
  /\ UNCHANGED <<overflow_checks, calls, hist, unwind, inits>>

RaceNext ==
  \/ \E c \in Ctx, l \in RaceLayouts : CallLayout(c, "alloc", l)
  \/ \E c \in Ctx, o \in outstanding \cup {NullFree} : CallFree(c, "dealloc", o)
  \/ \E c \in Ctx : Acquire(c)
  \/ \E c \in Ctx : BodyRead(c)
  \/ \E c \in Ctx : BodyWrite(c)
  \/ \E c \in Ctx : Release(c)

RaceSpec == RaceInit /\ [][RaceNext]_vars

(***************************************************************************)
(* One Slab under allocate, deallocate, allocate_multiple and              *)
(* deallocate_multiple.  heap holds the Slab; an outstanding allocation is *)
(* [ptr, num], num the number of its blocks.                               *)
(***************************************************************************)
\* slabs of four and of two blocks
MultiBlockSizes == {1024, 2048}

\* numbers of blocks asked for at once
MultiCounts == 1 .. 3

\* calls made on the slab in one behaviour
MaxMultiCalls == 6

\* Slab::new(MIN_SLAB_SIZE, MIN_SLAB_SIZE, block_size) has returned
MultiInit ==
  /\ overflow_checks \in BOOLEAN
  /\ \E block_size \in MultiBlockSizes :
       \E r \in {Slab_new(EmptyMem, MIN_SLAB_SIZE, MIN_SLAB_SIZE, block_size)} :
          /\ heap = [kind |-> "Slab", slab |-> r.slab]
          /\ mem = r.mem
  /\ outstanding = {}
  /\ last = NoCall
  /\ calls = 0
  /\ hist = InitHist
  /\ unwind = TRUE
  /\ lock = Unlocked
  /\ pc = [c \in Ctx |-> "idle"]
  /\ req = [c \in Ctx |-> NoCall]
  /\ inits = 0
  /\ plain = NoPlain

\* a call was made on the slab and no call has panicked
MultiCall ==
  /\ IF last.op = "none" THEN TRUE ELSE ~last.panic
  /\ calls < MaxMultiCalls
  /\ calls' = calls + 1

\* slab.allocate_multiple(layout, num); num = 1 is slab.allocate(layout)
MultiAllocate(num) ==
  /\ MultiCall
  /\ \E r \in {Slab_allocate_multiple(heap.slab, mem, num)} :
       /\ heap' = [heap EXCEPT !.slab = r.slab]
       /\ mem' = r.mem
       /\ outstanding' = IF r.ok THEN outstanding \cup {[ptr |-> r.ptr, num |-> num]}
                         ELSE outstanding
       /\ last' = [op |-> "allocate_multiple", num |-> num, ok |-> r.ok,
                   panic |-> r.panic, ptr |-> r.ptr, slab |-> heap.slab, mem |-> mem]
  /\ UNCHANGED <<overflow_checks, hist, lockedVars>>

\* slab.deallocate(ptr) of an outstanding block
MultiDeallocate(o) ==
  /\ MultiCall
  /\ o \in outstanding
  /\ o.num = 1
  /\ \E r \in {Slab_deallocate(heap.slab, mem, o.ptr)} :
       /\ heap' = [heap EXCEPT !.slab = r.slab]
       /\ mem' = r.mem
  /\ outstanding' = outstanding \ {o}
  /\ last' = [op |-> "deallocate", num |-> 1, ok |-> TRUE, panic |-> FALSE,
              ptr |-> o.ptr, slab |-> heap.slab, mem |-> mem]
  /\ UNCHANGED <<overflow_checks, hist, lockedVars>>

\* slab.deallocate_multiple(ptr, num) of an outstanding allocation
MultiDeallocateMultiple(o) ==
  /\ MultiCall
  /\ o \in outstanding
  /\ \E r \in {Slab_deallocate_multiple(heap.slab, mem, o.ptr, o.num)} :
       /\ heap' = [heap EXCEPT !.slab = r.slab]
       /\ mem' = r.mem
       /\ last' = [op |-> "deallocate_multiple", num |-> o.num, ok |-> r.ok,
                   panic |-> ~r.ok, ptr |-> o.ptr, slab |-> heap.slab, mem |-> mem]
  /\ outstanding' = outstanding \ {o}
  /\ UNCHANGED <<overflow_checks, hist, lockedVars>>

MultiNext ==
  \/ \E num \in MultiCounts : MultiAllocate(num)
  \/ \E o \in outstanding : MultiDeallocate(o)
  \/ \E o \in outstanding : MultiDeallocateMultiple(o)

MultiSpec == MultiInit /\ [][MultiNext]_vars

(***************************************************************************)
(* The classification applied to layouts on both sides of every threshold  *)
(***************************************************************************)
Thresholds == {64, 128, 256, 512, 1024, 2048, 4096}
ClassifySizes ==
  {0, 16, 24, 80, 96, 8192, MIN_HEAP_SIZE, MIN_HEAP_SIZE + 1}
  \cup {t - 1 : t \in Thresholds} \cup Thresholds \cup {t + 1 : t \in Thresholds}
ClassifyAligns == {Pow2(e) : e \in 0 .. 13}
ClassifyLayouts == {Layout(sz, al) : sz \in ClassifySizes, al \in ClassifyAligns}

\* the sub-allocator layout_to_allocator names for layout, the field the arm
\* of allocate and of deallocate for it works on, and what usable_size returns
Classify(layout) ==
  /\ last' = [op |-> "classify", layout |-> layout,
              which |-> layout_to_allocator(layout),
              allocate |-> AllocateArm(layout_to_allocator(layout)),
              deallocate |-> DeallocateArm(layout_to_allocator(layout)),
              usable |-> usable_size(layout)]
  /\ UNCHANGED <<overflow_checks, heap, mem, outstanding, calls, hist, lockedVars>>

ClassifyNext == \E l \in ClassifyLayouts : Classify(l)

ClassifySpec == Init /\ [][ClassifyNext]_vars

(***************************************************************************)
(* Properties                                                              *)
(***************************************************************************)
SlabFields ==
  {"slab_64_bytes", "slab_128_bytes", "slab_256_bytes", "slab_512_bytes",
   "slab_1024_bytes", "slab_2048_bytes", "slab_4096_bytes"}

HeapFields == SlabFields \cup {"linked_list_allocator"}

\* block size and position among the eight slices of the slab in a field
BlockSizeOf(field) ==
  CASE field = "slab_64_bytes" -> 64
    [] field = "slab_128_bytes" -> 128
    [] field = "slab_256_bytes" -> 256
    [] field = "slab_512_bytes" -> 512
    [] field = "slab_1024_bytes" -> 1024
    [] field = "slab_2048_bytes" -> 2048
    [] field = "slab_4096_bytes" -> 4096

SliceOf(field) ==
  CASE field = "slab_64_bytes" -> 0
    [] field = "slab_128_bytes" -> 1
    [] field = "slab_256_bytes" -> 2
    [] field = "slab_512_bytes" -> 3
    [] field = "slab_1024_bytes" -> 4
    [] field = "slab_2048_bytes" -> 5
    [] field = "slab_4096_bytes" -> 6
    [] field = "linked_list_allocator" -> 7

\* the sub-allocator enum value that stands for a field
NameOf(field) ==
  CASE field = "slab_64_bytes" -> "Slab64Bytes"
    [] field = "slab_128_bytes" -> "Slab128Bytes"
    [] field = "slab_256_bytes" -> "Slab256Bytes"
    [] field = "slab_512_bytes" -> "Slab512Bytes"
    [] field = "slab_1024_bytes" -> "Slab1024Bytes"
    [] field = "slab_2048_bytes" -> "Slab2048Bytes"
    [] field = "slab_4096_bytes" -> "Slab4096Bytes"
    [] field = "linked_list_allocator" -> "LinkedListAllocator"

\* the decision table: the field of the Heap that serves a layout is the
\* large-block allocator above 4096 bytes, else the slab of the smallest block
\* size up to 2048 that is at least the size and the alignment, else the slab
\* of 4096-byte blocks
TableField(layout) ==
  IF layout.size > 4096 THEN "linked_list_allocator"
  ELSE LET fits == {f \in SlabFields \ {"slab_4096_bytes"} :
                      layout.size <= BlockSizeOf(f) /\ layout.align <= BlockSizeOf(f)}
       IN IF fits = {} THEN "slab_4096_bytes"
          ELSE CHOOSE f \in fits : \A g \in fits : BlockSizeOf(f) <= BlockSizeOf(g)

\* total length and start of the region a heap was built over
HeapSize(h) == h.slab_64_bytes.slab_size * NUM_OF_SLABS
HeapStart(h) == h.slab_64_bytes.start_addr

\* C1: layout_to_allocator maps every layout to the sub-allocator of the
\* decision table, and allocate, deallocate and usable_size called with the
\* layout all select that sub-allocator.
C1_Classification ==
  last.op = "classify" =>
    LET f == TableField(last.layout) IN
    /\ last.which = NameOf(f)
    /\ last.allocate = f
    /\ last.deallocate = f
    /\ last.usable[2] = IF f = "linked_list_allocator" THEN last.layout.size
                        ELSE BlockSizeOf(f)

\* a small size with a large alignment climbs to the slab of that alignment
C1_Witness ==
  /\ last.op = "classify"
  /\ last.layout = Layout(24, 512)
  /\ last.which = "Slab512Bytes"
  /\ last.deallocate = "slab_512_bytes"

\* C2 (as claimed): the first allocation on a heap built over MIN_HEAP_SIZE
\* bytes, for a layout of at most MIN_HEAP_SIZE bytes, fails or returns a
\* pointer that is a multiple of the layout's alignment.
C2_FreshAligned ==
  (/\ last.op = "allocate"
   /\ calls = 1
   /\ HeapSize(heap) = MIN_HEAP_SIZE
   /\ last.layout.size <= MIN_HEAP_SIZE
   /\ last.ok)
  => last.ptr % last.layout.align = 0

\* C3: every pointer allocate returns for a layout of a slab is a multiple of
\* the slab's block size and lies inside the slab's region.
C3_SlabPointer ==
  (last.op = "allocate" /\ last.ok /\ TableField(last.layout) \in SlabFields) =>
    LET f == TableField(last.layout) IN
    /\ last.ptr % BlockSizeOf(f) = 0
    /\ contains_addr(heap[f], last.ptr)
    /\ heap[f].block_size = BlockSizeOf(f)

C3_Witness ==
  /\ last.op = "allocate" /\ last.ok
  /\ calls = MaxCalls
  /\ TableField(last.layout) = "slab_512_bytes"
  /\ last.ptr % 512 = 0
  /\ \E o \in outstanding : TableField(o.layout) = "slab_128_bytes"

\* C4: an allocation from a slab whose last call gave a block back returns
\* that block, whatever was called on the other sub-allocators in between.
C4_LifoReuse ==
  (last.op = "allocate" /\ TableField(last.layout) \in SlabFields
     /\ last.freed # None)
  => (last.ok /\ last.ptr = last.freed)

\* a block is reused after a call on another sub-allocator
C4_Witness ==
  /\ last.op = "allocate" /\ last.ok
  /\ last.freed # None
  /\ last.ptr = last.freed
  /\ last.others > 0

\* C5: the k-th allocation from a slab that nothing was given back to returns
\* start + (k - 1) * block_size, and it succeeds as long as k is at most the
\* number of blocks of the slab.
C5_FreshOrder ==
  (last.op = "allocate" /\ TableField(last.layout) \in SlabFields) =>
    LET f == TableField(last.layout)
        fresh == hist[NameOf(f)].fresh
    IN /\ last.k >= 1 =>
            last.ptr = heap[f].start_addr + (last.k - 1) * BlockSizeOf(f)
       /\ (~last.ok /\ fresh >= 0) => fresh = num_of_blocks(heap[f])

\* the second and last block of the slab of 2048-byte blocks
C5_Witness ==
  /\ last.op = "allocate" /\ last.ok
  /\ TableField(last.layout) = "slab_2048_bytes"
  /\ last.k = 2
  /\ last.ptr = heap.slab_2048_bytes.start_addr + 2048
  /\ num_of_blocks(heap.slab_2048_bytes) = 2

\* C6 (as claimed): for every input that passes the three assertions,
\* Heap::new returns a heap whose sub-allocators cover the eight consecutive
\* slices of length heap_size / 8, the large-block allocator the eighth.
C6_NewRegions ==
  (last.op = "new" /\ NewAsserts(last.start, last.size)) =>
    /\ last.ok
    /\ heap.kind = "Some"
    /\ \A f \in SlabFields :
         /\ heap[f].start_addr = last.start + SliceOf(f) * (last.size \div 8)
         /\ heap[f].slab_size = last.size \div 8
         /\ heap[f].block_size = BlockSizeOf(f)
    /\ heap.linked_list_allocator.bottom = last.start + 7 * (last.size \div 8)
    /\ heap.linked_list_allocator.size = last.size \div 8

\* the slab chosen for the call that leads to the next state is empty
ChosenSlabEmpty ==
  /\ heap.kind = "Some"
  /\ calls' = calls + 1
  /\ last'.op = "allocate"
  /\ TableField(last'.layout) \in SlabFields
  /\ heap[TableField(last'.layout)].free_block_list.head = None

\* C7: an allocation whose slab has an empty free list fails and leaves all
\* eight sub-allocators as they were.
C7_NoFallback ==
  [][ChosenSlabEmpty => (~last'.ok /\ heap' = heap /\ mem' = mem)]_vars

\* the slab of 2048-byte blocks is exhausted while the slab of 4096-byte
\* blocks still has its block
C7_Witness ==
  /\ last.op = "allocate" /\ ~last.ok
  /\ TableField(last.layout) = "slab_2048_bytes"
  /\ heap.slab_2048_bytes.free_block_list.len = 0
  /\ heap.slab_4096_bytes.free_block_list.len = 1
  /\ heap.slab_4096_bytes.free_block_list.head # None

\* C8 (as claimed): an allocation of more bytes than the heap's region holds
\* fails.
C8_TooLargeFails ==
  (last.op = "allocate" /\ last.layout.size > HeapSize(heap)) => ~last.ok

(***************************************************************************)
(* LockedHeap properties                                                   *)
(***************************************************************************)
HeapOps == {"allocate", "deallocate", "usable_size", "alloc", "dealloc"}

\* c has the guard of the mutex: from the return of lock() to the drop
HoldsLock(c) == pc[c] \in {"held", "release"}

\* c is inside a function of Heap: Heap::new called by init, or a method of
\* the Heap the mutex holds
InHeapOp(c) ==
  \/ pc[c] = "start"
  \/ pc[c] = "held" /\ req[c].op \in HeapOps /\ heap.kind = "Some"

\* C9, as stated: at most one context is inside a Heap operation at any time,
\* init among the calls
C9_OneInHeapOp ==
  \A c1, c2 \in Ctx : c1 # c2 => ~(InHeapOp(c1) /\ InHeapOp(c2))

\* C9, amended: at most one context at a time has the guard, a context runs
\* the body of its call (classification, the sub-allocator's free-list update,
\* the store of init) only with the guard and keeps it until after the body,
\* and the Heap in the mutex changes only in such a step; Heap::new of init
\* runs before init takes the lock
C9_LockedExclusion ==
  /\ [](\A c \in Ctx : HoldsLock(c) => lock = c)
  /\ [][\A c \in Ctx :
          /\ (pc[c] = "wait" /\ pc'[c] # "wait") => (lock = Unlocked /\ lock' = c)
          /\ (pc[c] = "held" /\ pc'[c] = "release") => (lock = c /\ lock' = c)
          /\ (pc[c] = "start" /\ pc'[c] # "start") => (lock # c /\ heap' = heap)]_vars
  /\ [][heap' # heap => \E c \in Ctx : pc[c] = "held" /\ lock = c /\ lock' = c]_vars

\* a context has updated the free list of an installed Heap and still has the
\* guard while another context spins on the lock
C9_Witness ==
  \E c1, c2 \in Ctx :
    /\ pc[c1] = "release" /\ req[c1].op \in AllocOps /\ req[c1].ok
    /\ lock = c1 /\ heap.kind = "Some"
    /\ pc[c2] = "wait"

\* C10: while the mutex holds None, the body of every allocate, deallocate,
\* usable_size, alloc and dealloc call panics without a result, and no step
\* but the store of init changes what the mutex holds
C10_PreInitPanics ==
  [][/\ \A c \in Ctx :
          (pc[c] = "held" /\ pc'[c] # "held" /\ req[c].op \in HeapOps /\ heap.kind = "None")
          => /\ pc'[c] = "panicked"
             /\ req'[c].result = "panic"
             /\ req'[c].rptr = None /\ ~req'[c].ok
             /\ heap' = NoHeap
             /\ mem' = mem
             /\ outstanding' = outstanding
     /\ (heap.kind = "None" /\ heap' # heap)
          => \E c \in Ctx : pc[c] = "held" /\ req[c].op = "init"]_vars

\* the mutex holds None, one context has panicked in alloc and another in
\* deallocate
C10_Witness ==
  \E c1, c2 \in Ctx :
    /\ heap.kind = "None"
    /\ pc[c1] = "panicked" /\ req[c1].op = "alloc"
    /\ req[c1].msg = "allocate: heap not initialzied"
    /\ pc[c2] = "panicked" /\ req[c2].op = "deallocate"
    /\ req[c2].msg = "deallocate: heap not initialized"

\* the body of c's call of op runs in the step, on an installed Heap, for a
\* layout whose slab has an empty free list
BodyOnEmptySlab(c, op) ==
  /\ pc[c] = "held" /\ pc'[c] # "held"
  /\ req[c].op = op
  /\ heap.kind = "Some"
  /\ TableField(req[c].layout) \in SlabFields
  /\ heap[TableField(req[c].layout)].free_block_list.head = None

\* C11, as stated: alloc on an exhausted sub-allocator panics with the message
\* "Out of memory" and returns no pointer
C11_OutOfMemory ==
  [][\A c \in Ctx :
       BodyOnEmptySlab(c, "alloc")
       => /\ pc'[c] = "panicked"
          /\ req'[c].msg = "Out of memory"
          /\ req'[c].rptr = None]_vars

\* C11, amended: alloc on an exhausted sub-allocator panics with the message
\* "allocate: failed", returns no pointer and leaves the Heap as it was
C11_AllocateFailed ==
  [][\A c \in Ctx :
       BodyOnEmptySlab(c, "alloc")
       => /\ pc'[c] = "panicked"
          /\ req'[c].result = "panic"
          /\ req'[c].msg = "allocate: failed"
          /\ req'[c].rptr = None
          /\ heap' = heap /\ mem' = mem /\ outstanding' = outstanding]_vars

\* alloc has panicked on an installed Heap whose slab of 4096-byte blocks has
\* its only block outstanding
C11_Witness ==
  \E c \in Ctx :
    /\ pc[c] = "panicked" /\ req[c].op = "alloc"
    /\ req[c].msg = "allocate: failed"
    /\ heap.kind = "Some"
    /\ heap.slab_4096_bytes.free_block_list.len = 0
    /\ \E o \in outstanding : o.layout = req[c].layout

\* C12: allocate on an exhausted slab returns Err without a panic, with the
\* Heap and the memory unchanged and the guard still to be dropped, the drop
\* frees the lock, and once a block of that slab was given back the same
\* allocate returns a block
C12_RecoverableErr ==
  [][\A c \in Ctx :
       /\ BodyOnEmptySlab(c, "allocate")
          => /\ pc'[c] = "release"
             /\ req'[c].result = "return" /\ ~req'[c].ok /\ req'[c].rptr = None
             /\ heap' = heap /\ mem' = mem /\ outstanding' = outstanding
             /\ req'[c].layout \in Failed(last')
       /\ (pc[c] = "release" /\ pc'[c] # "release")
          => (pc'[c] = "idle" /\ lock = c /\ lock' = Unlocked)
       /\ (/\ pc[c] = "held" /\ pc'[c] # "held"
           /\ req[c].op = "allocate"
           /\ req[c].layout \in Refilled(last))
          => /\ pc'[c] = "release"
             /\ req'[c].result = "return" /\ req'[c].ok /\ req'[c].rptr # None
             /\ req'[c].layout \in Recovered(last')]_vars

\* an allocate has returned Err, a block of its slab was given back, and the
\* same allocate has now returned that block
C12_Witness ==
  \E c \in Ctx :
    /\ pc[c] = "release" /\ req[c].op = "allocate"
    /\ req[c].ok /\ req[c].rptr # None
    /\ req[c].layout \in Recovered(last)
    /\ heap.kind = "Some"

\* C13: the mutex holds None after empty() and a Heap after new(), the store
\* of init leaves a Heap in it, and no step, a failing call included, takes a
\* Heap out of it
C13_Lifecycle ==
  /\ (inits = 0 => heap.kind = "None")
  /\ (inits = 1 => heap.kind = "Some")
  /\ [][\A c \in Ctx :
          (pc[c] = "held" /\ pc'[c] # "held" /\ req[c].op = "init")
          => (pc'[c] = "release" /\ heap'.kind = "Some" /\ heap' = req[c].built)]_vars
  /\ [][heap.kind = "Some" => heap'.kind = "Some"]_vars

\* on a LockedHeap that init made Initialized, one context has panicked in
\* alloc for want of a block and another in an init whose Heap::new panicked
C13_Witness ==
  \E c1, c2 \in Ctx :
    /\ heap.kind = "Some"
    /\ inits = MaxInits
    /\ pc[c1] = "panicked" /\ req[c1].op = "alloc" /\ req[c1].msg = "allocate: failed"
    /\ pc[c2] = "panicked" /\ req[c2].op = "init"

\* C14: usable_size returns the layout's size and, for a layout classified to
\* a slab, that slab's block size, else the layout's size again; the second
\* component is never below the first
C14_UsableSize ==
  last.op = "classify" =>
    LET chosen == AllocateArm(last.which) IN
    /\ last.usable = <<last.layout.size,
                       IF chosen \in SlabFields THEN BlockSizeOf(chosen)
                       ELSE last.layout.size>>
    /\ last.usable[1] = last.layout.size
    /\ last.usable[2] >= last.layout.size

\* a layout one byte past the largest block, and a one-byte layout whose
\* alignment puts it in the slab of 2048-byte blocks
C14_Witness ==
  /\ last.op = "classify"
  /\ \/ last.layout = Layout(4097, 8) /\ last.usable = <<4097, 4097>>
     \/ last.layout = Layout(0, 2048) /\ last.usable = <<0, 2048>>

\* C15 (as claimed): while no request has failed, a request returns the same
\* offset from the start of the region on the LockedHeap, through alloc, as on
\* the plain Heap, through allocate
C15_Parity ==
  (last.op = "parity_alloc" /\ last.ok)
  => (last.locked_ptr - last.start) % UsizeMod = (last.plain_ptr - last.start) % UsizeMod

\* scenario S4 up to z: on a heap over MIN_HEAP_SIZE bytes at H the first two
\* calls were x = allocate(16, 8) = H and y = allocate(24, 8) = H + 64, both
\* still outstanding, and the third call is z = allocate(24, 64)
S4_AfterZ ==
  /\ heap.kind = "Some"
  /\ HeapSize(heap) = MIN_HEAP_SIZE
  /\ calls = 3
  /\ last.op = "allocate" /\ last.layout = Layout(24, 64)
  /\ [ptr |-> HeapStart(heap), layout |-> Layout(16, 8)] \in outstanding
  /\ [ptr |-> (HeapStart(heap) + 64) % UsizeMod, layout |-> Layout(24, 8)] \in outstanding

\* C16, as stated: z is served by the slab of 512-byte blocks and is a
\* multiple of 64
C16_ServedBySlab512 ==
  S4_AfterZ =>
    /\ last.ok
    /\ last.which = "Slab512Bytes"
    /\ contains_addr(heap.slab_512_bytes, last.ptr)
    /\ last.ptr % 64 = 0

\* C16, amended: z is served by the slab of 64-byte blocks, whose block size
\* meets the alignment: z = H + 128, a multiple of 64, and the slab of
\* 512-byte blocks keeps all its blocks
C16_ServedBySlab64 ==
  S4_AfterZ =>
    /\ last.ok
    /\ last.which = "Slab64Bytes"
    /\ contains_addr(heap.slab_64_bytes, last.ptr)
    /\ last.ptr = (HeapStart(heap) + 128) % UsizeMod
    /\ last.ptr % 64 = 0
    /\ free_blocks(heap.slab_64_bytes) = num_of_blocks(heap.slab_64_bytes) - 3
    /\ free_blocks(heap.slab_512_bytes) = num_of_blocks(heap.slab_512_bytes)

\* x, y and z are outstanding
C16_Witness ==
  /\ S4_AfterZ
  /\ last.ok
  /\ [ptr |-> last.ptr, layout |-> Layout(24, 64)] \in outstanding

\* C17: Heap::new with a start that is no multiple of 4096, or with a length
\* below 8 * 4096 or no multiple of 8 * 4096, panics and leaves no heap
C17_NewAsserts ==
  (/\ last.op = "new"
   /\ \/ last.start % 4096 # 0
      \/ last.size < 8 * 4096
      \/ last.size % (8 * 4096) # 0)
  => (~last.ok /\ heap = NoHeap /\ mem = EmptyMem)

\* in the build where the sum start + 7 * slab_size wraps, a start eight
\* bytes off the one whose heap_bottom would be 0 is stopped by the assertion
C17_Witness ==
  /\ last.op = "new" /\ ~last.ok
  /\ ~overflow_checks
  /\ last.start = UsizeMod - (NUM_OF_SLABS - 1) * MIN_SLAB_SIZE + 8
  /\ last.size = MIN_HEAP_SIZE
  /\ heap = NoHeap

\* the slab with the smallest block size that is at least align
SmallestSlabFor(align) ==
  CHOOSE f \in SlabFields :
    /\ BlockSizeOf(f) >= align
    /\ \A g \in SlabFields : BlockSizeOf(g) >= align => BlockSizeOf(g) >= BlockSizeOf(f)

\* the step is an allocate of a layout of size 0 and alignment at most 4096
\* whose smallest fitting slab has a free block
ZeroSizeRequest ==
  /\ heap.kind = "Some"
  /\ calls' = calls + 1
  /\ last'.op = "allocate"
  /\ last'.layout.size = 0 /\ last'.layout.align <= 4096
  /\ free_blocks(heap[SmallestSlabFor(last'.layout.align)]) > 0

\* C18: such a request succeeds, takes exactly one block from the smallest
\* slab whose block size is at least the alignment and leaves the other
\* sub-allocators alone, and its pointer is not null, a multiple of the
\* alignment and the pointer of no allocation that is outstanding
C18_ZeroSize ==
  [][ZeroSizeRequest =>
       LET f == SmallestSlabFor(last'.layout.align) IN
       /\ last'.ok
       /\ last'.which = NameOf(f)
       /\ last'.ptr # None
       /\ last'.ptr % last'.layout.align = 0
       /\ contains_addr(heap[f], last'.ptr)
       /\ free_blocks(heap'[f]) = free_blocks(heap[f]) - 1
       /\ \A g \in HeapFields \ {f} : heap'[g] = heap[g]
       /\ \A o \in outstanding : o.ptr # last'.ptr
       /\ [ptr |-> last'.ptr, layout |-> last'.layout] \in outstanding']_vars

\* a second request of size 0 and alignment 128 is served while the first
\* one and a 16-byte allocation are outstanding
C18_Witness ==
  /\ last.op = "allocate" /\ last.ok
  /\ last.layout = Layout(0, 128)
  /\ last.ptr % 128 = 0
  /\ \E o \in outstanding : o.layout = Layout(0, 128) /\ o.ptr # last.ptr
  /\ \E o \in outstanding : o.layout = Layout(16, 8)
  /\ free_blocks(heap.slab_128_bytes) = num_of_blocks(heap.slab_128_bytes) - 2

\* C19: Heap::grow(start, region_len, which) with which naming a slab of
\* block size B panics if region_len is not a multiple of B and otherwise
\* appends exactly region_len / B free blocks, the blocks start + i * B of the
\* region, behind the blocks the slab had; the other seven sub-allocators are
\* unchanged; and an allocation from a slab succeeds exactly when the slab
\* has a free block, which it takes, so that the grown slab serves exactly
\* that many further allocations.
C19_Grow ==
  /\ [][last'.op = "grow" /\ last'.which \in SlabAllocators =>
          LET f == CHOOSE g \in SlabFields : NameOf(g) = last'.which
              B == BlockSizeOf(f)
              n == last'.size \div B
              start == last'.start
              old == heap[f].free_block_list
              new == heap'[f].free_block_list
          IN /\ \A g \in HeapFields \ {f} : heap'[g] = heap[g]
             /\ last'.ok <=> last'.size % B = 0
             /\ ~last'.ok => heap' = heap /\ mem' = mem
             /\ last'.ok =>
                  /\ n >= 1
                  /\ new.len = old.len + n
                  /\ new.head = IF old.head = None THEN start ELSE old.head
                  /\ new.tail = start + (n - 1) * B
                  /\ old.tail # None => mem'[old.tail].next = start
                  /\ \A i \in 0 .. n - 2 : mem'[start + i * B].next = start + (i + 1) * B
                  /\ mem'[new.tail].next = None
                  /\ \A a \in DOMAIN mem : a # old.tail => mem'[a] = mem[a]
                  /\ DOMAIN mem' = DOMAIN mem \cup {start + i * B : i \in 0 .. n - 1}]_vars
  /\ [][last'.op = "allocate" /\ last'.which \in SlabAllocators =>
          LET f == CHOOSE g \in SlabFields : NameOf(g) = last'.which
          IN /\ last'.ok <=> free_blocks(heap[f]) > 0
             /\ last'.ok => /\ free_blocks(heap'[f]) = free_blocks(heap[f]) - 1
                            /\ last'.ptr = heap[f].free_block_list.head
             /\ ~last'.ok => heap'[f] = heap[f]]_vars

\* the slab of 4096-byte blocks was grown by one block, has handed out a
\* block of the grown region and its own block, and fails the next request
C19_Witness ==
  /\ last.op = "allocate"
  /\ last.which = "Slab4096Bytes"
  /\ ~last.ok
  /\ \E o \in outstanding : o.ptr \in GrowStarts /\ o.layout = Layout(4096, 8)
  /\ \E o \in outstanding : contains_addr(heap.slab_4096_bytes, o.ptr)
  /\ heap.slab_4096_bytes.free_block_list.len = 0


\* C20: a call on the LockedHeap that a context makes from the panic handler
\* of its own call on it, while the guard of that call still holds the
\* lock, never acquires the lock and never completes: the context waits for
\* the lock in every later state.
C20_ReentryDeadlock ==
  /\ [](\A c \in Ctx : Reentered(c) => pc[c] = "wait")
  /\ [][\A c \in Ctx : Reentered(c) => Reentered(c)']_vars

\* a failing alloc panicked with the lock held and its handler called alloc
\* again, which waits for the lock its own context holds
C20_Witness ==
  \E c \in Ctx :
    /\ Reentered(c)
    /\ req[c].op \in AllocOps \cup FreeOps
    /\ req[c].outer.op = "alloc"
    /\ req[c].outer.msg = "allocate: failed"
    /\ pc[c] = "wait"
    /\ lock = c

\* c is inside a call of allocate, deallocate, alloc or dealloc that has
\* neither returned nor panicked
InCall(c) == pc[c] \in {"wait", "held", "release"}

\* C21 as stated: under fair scheduling every call of allocate, deallocate,
\* alloc or dealloc eventually returns or panics, and the lock is free when a
\* call has returned.
C21_CallsComplete ==
  /\ \A c \in Ctx : InCall(c) ~> ~InCall(c)
  /\ [][\A c \in Ctx : pc[c] = "release" /\ pc'[c] = "idle" => lock' = Unlocked]_vars

\* C21, amended: where a panic unwinds, under fair scheduling every call of
\* allocate, deallocate, alloc or dealloc eventually returns or panics; in
\* every build the lock is free when a call has returned.
C21_CallsCompleteUnwinding ==
  /\ \A c \in Ctx : (unwind /\ InCall(c)) ~> ~InCall(c)
  /\ [][\A c \in Ctx : pc[c] = "release" /\ pc'[c] = "idle" => lock' = Unlocked]_vars

\* in an unwinding build one call panicked under the lock and a call of
\* another context, made since, has the lock
C21_Witness ==
  /\ unwind
  /\ \E c \in Ctx : pc[c] = "panicked" /\ req[c].op \in AllocOps \cup FreeOps
  /\ \E c \in Ctx : pc[c] = "release" /\ lock = c

\* the blocks reached from node over the next links, at most n of them
RECURSIVE Chain(_, _, _)
Chain(m, node, n) ==
  IF node = None \/ n = 0 THEN <<>>
  ELSE <<node>> \o Chain(m, m[node].next, n - 1)

\* C22: the free list of every slab has exactly len nodes on the chain from
\* its head, its head is None exactly when len is 0, no block is on it twice,
\* and every block on it lies in the region of the slab at a multiple of the
\* block size.
C22_FreeList ==
  heap.kind = "Some" =>
    \A f \in SlabFields :
      LET list == heap[f].free_block_list
          chain == Chain(mem, list.head, list.len + 1)
      IN /\ Len(chain) = list.len
         /\ list.head = None <=> list.len = 0
         /\ \A i, j \in 1 .. Len(chain) : chain[i] = chain[j] => i = j
         /\ \A i \in 1 .. Len(chain) :
              /\ chain[i] >= heap[f].start_addr
              /\ chain[i] < heap[f].start_addr + heap[f].slab_size
              /\ chain[i] % BlockSizeOf(f) = 0

\* the slab of 2048-byte blocks ran empty and got its two blocks back, the
\* higher one last
C22_Witness ==
  /\ heap.kind = "Some"
  /\ last.op = "deallocate"
  /\ last.which = "Slab2048Bytes"
  /\ heap.slab_2048_bytes.free_block_list.len = 2
  /\ heap.slab_2048_bytes.free_block_list.head > heap.slab_2048_bytes.free_block_list.tail

\* C23: a successful Heap::allocate(L) and a Heap::deallocate(p, L) change
\* only the sub-allocator the decision table gives for L: the other seven
\* fields of the Heap are as they were, and so is every free-list node
\* stored outside the region of that sub-allocator (every node, when it is
\* the large-block allocator).
C23_Frame ==
  [][(last'.op = "allocate" /\ last'.ok) \/ last'.op = "deallocate" =>
       LET f == TableField(last'.layout)
       IN /\ \A g \in HeapFields \ {f} : heap'[g] = heap[g]
          /\ DOMAIN mem' = DOMAIN mem
          /\ \A a \in DOMAIN mem :
               \/ mem'[a] = mem[a]
               \/ /\ f \in SlabFields
                  /\ a >= heap[f].start_addr
                  /\ a < heap[f].start_addr + heap[f].slab_size]_vars

\* a block of the slab of 2048-byte blocks is given back while a block of
\* another slab and one of the large-block allocator are outstanding
C23_Witness ==
  /\ last.op = "deallocate"
  /\ last.which = "Slab2048Bytes"
  /\ \E o \in outstanding : layout_to_allocator(o.layout) = "LinkedListAllocator"
  /\ \E o \in outstanding : layout_to_allocator(o.layout) = "Slab64Bytes"

\* the bytes [ptr, ptr + usable_size(layout).1) of an allocation
RangeEnd(o) == o.ptr + usable_size(o.layout)[2]
Disjoint(o1, o2) == RangeEnd(o1) <= o2.ptr \/ RangeEnd(o2) <= o1.ptr

\* C24: any two outstanding allocations of a Heap occupy disjoint byte
\* ranges [ptr, ptr + usable_size(L).1), all inside [heap_start, heap_start +
\* heap_size), and allocate never returns a block that is still outstanding.
C24_NoOverlap ==
  /\ [](heap.kind = "Some" =>
          /\ \A o \in outstanding :
               /\ o.ptr >= HeapStart(heap)
               /\ RangeEnd(o) <= HeapStart(heap) + HeapSize(heap)
          /\ \A o1, o2 \in outstanding : o1 # o2 => Disjoint(o1, o2))
  /\ [][last'.op = "allocate" /\ last'.ok =>
          \A o \in outstanding :
             Disjoint(o, [ptr |-> last'.ptr, layout |-> last'.layout])]_vars

\* the outstanding allocations that the slab in field f served
OutstandingOf(f) == {o \in outstanding : FieldOf(o.layout) = f}

\* C25: for every slab, free_blocks() plus the number of its outstanding
\* blocks is num_of_blocks() = slab_size / block_size and used_blocks() is
\* that number of outstanding blocks, computed without underflow; allocate
\* succeeds exactly when free_blocks() > 0 and then lowers it by one, and
\* deallocate raises it by one.
C25_Conservation ==
  /\ [](heap.kind = "Some" =>
          \A f \in SlabFields :
             /\ num_of_blocks(heap[f]) = heap[f].slab_size \div BlockSizeOf(f)
             /\ free_blocks(heap[f]) + Cardinality(OutstandingOf(f))
                  = num_of_blocks(heap[f])
             /\ used_blocks(heap[f]).ok
             /\ used_blocks(heap[f]).value = Cardinality(OutstandingOf(f)))
  /\ [][last'.op = "allocate" /\ last'.which \in SlabAllocators =>
          LET f == FieldOf(last'.layout)
          IN /\ last'.ok <=> free_blocks(heap[f]) > 0
             /\ free_blocks(heap'[f])
                  = free_blocks(heap[f]) - (IF last'.ok THEN 1 ELSE 0)]_vars
  /\ [][last'.op = "deallocate" /\ last'.which \in SlabAllocators =>
          LET f == FieldOf(last'.layout)
          IN free_blocks(heap'[f]) = free_blocks(heap[f]) + 1]_vars

\* both blocks of the slab of 2048-byte blocks are outstanding and a third
\* request to it has failed
C25_Witness ==
  /\ heap.kind = "Some"
  /\ last.op = "allocate"
  /\ last.which = "Slab2048Bytes"
  /\ ~last.ok
  /\ free_blocks(heap.slab_2048_bytes) = 0
  /\ used_blocks(heap.slab_2048_bytes).value = 2
  /\ Cardinality(OutstandingOf("slab_2048_bytes")) = 2

\* the blocks that contexts hold: those handed out and not given back, and
\* those a dealloc call is about to put back
HeldBlocks ==
  {o.ptr : o \in outstanding}
  \cup {req[c].ptr : c \in {d \in Ctx : pc[d] \in {"wait", "held", "body"}
                                        /\ req[d].op = "dealloc"}}

\* C26: under every interleaving of alloc and dealloc calls of the contexts
\* on an initialized LockedHeap, alloc never returns a block that a context
\* holds, every call returns what it returns when the calls are made one
\* after the other in the order in which they got the lock, and the Heap
\* and its free lists are those that this sequential order produces.
C26_NoRace ==
  /\ [](heap = plain.heap /\ mem = plain.mem)
  /\ [][\A c \in Ctx :
          pc[c] = "body" /\ pc'[c] # "body" =>
            /\ last'.outcome = last'.plain_outcome
            /\ last'.ptr = last'.plain_ptr
            /\ req[c].op = "alloc" /\ req'[c].ok =>
                 req'[c].rptr \notin HeldBlocks]_vars

\* a context got the second block of the slab through alloc, the first one
\* being outstanding, while the call of another context waits for the lock
C26_Witness ==
  \E c, d \in Ctx :
    /\ c # d
    /\ pc[c] = "release"
    /\ req[c].op = "alloc"
    /\ req[c].ok
    /\ lock = c
    /\ pc[d] = "wait"
    /\ Cardinality(outstanding) = 2

\* the blocks on the free list of slab, its nodes being in m
ListedBlocks(slab, m) ==
  LET chain == Chain(m, slab.free_block_list.head, slab.free_block_list.len)
  IN {chain[i] : i \in 1 .. Len(chain)}

\* the list of slab has len distinct nodes
WellFormed(slab, m) ==
  /\ Len(Chain(m, slab.free_block_list.head, slab.free_block_list.len + 1))
       = slab.free_block_list.len
  /\ Cardinality(ListedBlocks(slab, m)) = slab.free_block_list.len

\* C27: a successful allocate_multiple(layout, n) with n >= 2 returns the
\* lowest address of n free blocks at consecutive block_size strides and
\* takes exactly these off the list, and a deallocate_multiple(ptr, n) on
\* that pointer that follows at once does not panic and puts the n blocks
\* back: free_blocks() and the blocks on the list are those before the
\* allocation.
C27_RoundTrip ==
  /\ [][last'.op = "allocate_multiple" /\ last'.ok /\ last'.num >= 2 =>
          LET run == {last'.ptr + i * heap.slab.block_size : i \in 0 .. last'.num - 1}
          IN /\ run \subseteq ListedBlocks(heap.slab, mem)
             /\ ListedBlocks(heap'.slab, mem') = ListedBlocks(heap.slab, mem) \ run
             /\ free_blocks(heap'.slab) = free_blocks(heap.slab) - last'.num
             /\ WellFormed(heap'.slab, mem')]_vars
  /\ [][/\ last.op = "allocate_multiple" /\ last.ok /\ last.num >= 2
        /\ last'.op = "deallocate_multiple"
        /\ last'.ptr = last.ptr /\ last'.num = last.num
        => /\ last'.ok
           /\ free_blocks(heap'.slab) = free_blocks(last.slab)
           /\ ListedBlocks(heap'.slab, mem') = ListedBlocks(last.slab, last.mem)
           /\ WellFormed(heap'.slab, mem')]_vars

====
